---- MODULE Spec2Model ----
(***************************************************************************)
(* C2S-Motors: the vehicle chat view (vehicles/views.py), the Vehicle      *)
(* model (vehicles/models.py) and what the view reads from the store.      *)
(*                                                                         *)
(* Text is a sequence of characters, each a string.  An accented letter    *)
(* is written as its base letter and a mark: "a'" (a acute), "e'" (e       *)
(* acute), "e^" (e circumflex), "i'", "o'", "u'", "a~" (a tilde), "c,"     *)
(* (c cedilla), "A'", "E'" (capitals); "EMDASH" is U+2014, a non-ASCII      *)
(* character with no decomposition.  Money is counted in hundredths        *)
(* (Decimal, 2 places).                                                    *)
(***************************************************************************)
EXTENDS Integers, Sequences, FiniteSets, TLC

VARIABLES
    msg,       \* the text given to parse_filters
    filters,   \* what parse_filters returned (None before the call)
    applied,   \* filters_applied built from it
    pstate,    \* "input", "parsed", "serialized"; "off" outside SpecParse
    store,     \* the rows of the Vehicle table
    clock,     \* the time, which is also the next primary key
    req,       \* the operation in progress or last done
    llm,       \* how the collaborator behaved for the request
    rfilters,  \* the filters the request was answered with
    resp,      \* the response computed, until it is delivered
    effects,   \* the queries run and the calls made for the request
    qresult,   \* the rows a query returned (SpecQuery)
    rs,        \* a result set, in its order (SpecSum)
    summary,   \* the summary built from rs
    call,      \* a function of views.py called on its own, with its arguments
    ret,       \* what the call returned (None before it returns)
    seed,      \* the seeding command in progress (SpecSeed)
    lastcreate, \* the last Vehicle.objects.create() and how it ended
    view       \* the locals of the view call in progress, query by query (SpecChat)

parseVars == <<msg, filters, applied, pstate>>

serviceVars == <<store, clock, req, llm, rfilters, resp, effects>>

sumVars == <<qresult, rs, summary>>

callVars == <<call, ret>>

seedVars == <<seed, lastcreate>>

sideVars == <<sumVars, callVars, seedVars, view>>

vars == <<parseVars, serviceVars, sideVars>>

---------------------------------------------------------------------------
\* Optional values (Python None / a value)

None == <<>>

Some(v) == <<v>>

IsSet(o) == o # <<>>

Val(o) == o[1]

Min(S) == CHOOSE x \in S : \A y \in S : x <= y

Max(S) == CHOOSE x \in S : \A y \in S : x >= y

---------------------------------------------------------------------------
\* Characters and the regular-expression classes the patterns use

UPPER == <<"A", "B", "C", "D", "E", "F", "G", "H", "I", "J", "K", "L", "M", "N", "O", "P", "Q", "R", "S", "T", "U", "V", "W", "X", "Y", "Z">>

LOWER == <<"a", "b", "c", "d", "e", "f", "g", "h", "i", "j", "k", "l", "m", "n", "o", "p", "q", "r", "s", "t", "u", "v", "w", "x", "y", "z">>

DIGITS == <<"0", "1", "2", "3", "4", "5", "6", "7", "8", "9">>

\* base letter of each accented letter (its NFKD decomposition is the base
\* letter followed by a combining mark)
ACCENTED == << <<"a'", "a">>, <<"e'", "e">>, <<"e^", "e">>, <<"i'", "i">>,
               <<"o'", "o">>, <<"u'", "u">>, <<"a~", "a">>, <<"c,", "c">>,
               <<"A'", "A">>, <<"E'", "E">> >>

IsAccented(c) == \E i \in 1..Len(ACCENTED) : ACCENTED[i][1] = c

NonAscii == {ACCENTED[i][1] : i \in 1..Len(ACCENTED)} \cup {"EMDASH", "COMBINING"}

DigitCls == {DIGITS[i] : i \in 1..10}

SpaceCls == {" ", "\t", "\n"}

\* [\d\.\,]
NumCls == DigitCls \cup {".", ","}

\* [\.\d]
DotDigitCls == DigitCls \cup {"."}

\* \w
WordCls == DigitCls \cup {UPPER[i] : i \in 1..26} \cup {LOWER[i] : i \in 1..26}
             \cup {ACCENTED[i][1] : i \in 1..Len(ACCENTED)} \cup {"_"}

DigitVal(c) == (CHOOSE i \in 1..10 : DIGITS[i] = c) - 1

\* str.lower() of one character
LowerOf == [c \in {UPPER[i] : i \in 1..26} |-> LOWER[CHOOSE i \in 1..26 : UPPER[i] = c]]

Lower(c) == IF c \in DOMAIN LowerOf THEN LowerOf[c]
            ELSE IF c = "A'" THEN "a'"
            ELSE IF c = "E'" THEN "e'"
            ELSE c

\* unicodedata.normalize("NFKD", c)
NFKD(c) == IF IsAccented(c)
           THEN <<(ACCENTED[CHOOSE i \in 1..Len(ACCENTED) : ACCENTED[i][1] = c])[2], "COMBINING">>
           ELSE <<c>>

\* .encode("ascii", "ignore").decode("ascii")
AsciiIgnore(s) == SelectSeq(s, LAMBDA c : c \notin NonAscii)

LowerSeq(s) == [i \in 1..Len(s) |-> Lower(s[i])]

\* the character at position i, "EOS" outside the text
CharAt(s, i) == IF i \in 1..Len(s) THEN s[i] ELSE "EOS"

\* a literal of the pattern at position i
LitAt(s, i, lit) == /\ i >= 1
                    /\ i + Len(lit) - 1 <= Len(s)
                    /\ \A k \in 1..Len(lit) : s[i + k - 1] = lit[k]

\* the same under re.IGNORECASE
LitAtI(s, i, lit) == /\ i >= 1
                     /\ i + Len(lit) - 1 <= Len(s)
                     /\ \A k \in 1..Len(lit) : Lower(s[i + k - 1]) = Lower(lit[k])

\* where a greedy run Cls* that starts at position i ends (first position after it)
RunEnd(s, i, Cls) == CHOOSE j \in i..(Len(s) + 1) :
                        /\ \A k \in i..(j - 1) : s[k] \in Cls
                        /\ (j = Len(s) + 1 \/ s[j] \notin Cls)

\* Python "lit in s"
Contains(s, lit) == \E i \in 1..Len(s) : LitAt(s, i, lit)

\* str.strip()
Strip(s) == LET keep == {i \in 1..Len(s) : s[i] \notin SpaceCls}
            IN  IF keep = {} THEN <<>> ELSE SubSeq(s, Min(keep), Max(keep))

\* str.replace(old, new) for a one-character old; new is a sequence
RECURSIVE Replace(_, _, _)
Replace(s, old, new) == IF s = <<>> THEN <<>>
                        ELSE (IF Head(s) = old THEN new ELSE <<Head(s)>>)
                               \o Replace(Tail(s), old, new)

\* int() of a sequence of digits
RECURSIVE IntOf(_)
IntOf(ds) == IF ds = <<>> THEN 0
             ELSE 10 * IntOf(SubSeq(ds, 1, Len(ds) - 1)) + DigitVal(ds[Len(ds)])

---------------------------------------------------------------------------
\* views.py: the synonym tables, in declaration order (a dict keeps it)

BODY_TYPES == << <<<<"s", "u", "v">>, <<"S", "U", "V">>>>,
                 <<<<"h", "a", "t", "c", "h">>, <<"H", "a", "t", "c", "h">>>>,
                 <<<<"s", "e", "d", "a", "n">>, <<"S", "e", "d", "a", "n">>>>,
                 <<<<"p", "i", "c", "a", "p", "e">>, <<"P", "i", "c", "a", "p", "e">>>>,
                 <<<<"p", "i", "c", "k", "u", "p">>, <<"P", "i", "c", "a", "p", "e">>>>,
                 <<<<"p", "e", "r", "u", "a">>, <<"P", "e", "r", "u", "a">>>>,
                 <<<<"w", "a", "g", "o", "n">>, <<"P", "e", "r", "u", "a">>>>,
                 <<<<"c", "o", "u", "p", "e">>, <<"C", "o", "u", "p", "e'">>>>,
                 <<<<"c", "o", "u", "p", "e'">>, <<"C", "o", "u", "p", "e'">>>> >>

TRANSMISSIONS == << <<<<"m", "a", "n", "u", "a", "l">>, <<"M", "a", "n", "u", "a", "l">>>>,
                    <<<<"a", "u", "t", "o", "m", "a", "t", "i", "c", "a">>, <<"A", "u", "t", "o", "m", "a'", "t", "i", "c", "a">>>>,
                    <<<<"a", "u", "t", "o", "m", "a'", "t", "i", "c", "a">>, <<"A", "u", "t", "o", "m", "a'", "t", "i", "c", "a">>>>,
                    <<<<"a", "u", "t", "o">>, <<"A", "u", "t", "o", "m", "a'", "t", "i", "c", "a">>>>,
                    <<<<"c", "v", "t">>, <<"C", "V", "T">>>> >>

FUELS == << <<<<"f", "l", "e", "x">>, <<"f", "l", "e", "x">>>>,
            <<<<"g", "a", "s", "o", "l", "i", "n", "a">>, <<"g", "a", "s", "o", "l", "i", "n", "a">>>>,
            <<<<"a", "l", "c", "o", "o", "l">>, <<"a", "l", "c", "o", "o", "l">>>>,
            <<<<"a'", "l", "c", "o", "o", "l">>, <<"a", "l", "c", "o", "o", "l">>>>,
            <<<<"e", "t", "a", "n", "o", "l">>, <<"a", "l", "c", "o", "o", "l">>>>,
            <<<<"d", "i", "e", "s", "e", "l">>, <<"d", "i", "e", "s", "e", "l">>>>,
            <<<<"e", "l", "e'", "t", "r", "i", "c", "o">>, <<"e", "l", "e", "t", "r", "i", "c", "o">>>>,
            <<<<"e", "l", "e", "t", "r", "i", "c", "o">>, <<"e", "l", "e", "t", "r", "i", "c", "o">>>>,
            <<<<"h", "i'", "b", "r", "i", "d", "o">>, <<"h", "i", "b", "r", "i", "d", "o">>>>,
            <<<<"h", "i", "b", "r", "i", "d", "o">>, <<"h", "i", "b", "r", "i", "d", "o">>>> >>

---------------------------------------------------------------------------
\* views.py: the patterns.  Each operator is pattern.search(s): the leftmost
\* match, its alternatives tried in the order written.

\* the literal alternatives of PRICE_PT_RE; the sixth, no\s+ma'ximo, is in
\* PricePtTriggerEnd
PRICE_PT_ALTS == << <<"a", "t", "e'">>, <<"a", "t", "e">>, <<"<", "=">>, <<"<">>, <<"p", "o", "r">> >>

\* the position after trigger alternative a matched at i; 0 when it does not match
PricePtTriggerEnd(s, i, a) ==
    IF a <= 5
    THEN IF LitAtI(s, i, PRICE_PT_ALTS[a]) THEN i + Len(PRICE_PT_ALTS[a]) ELSE 0
    ELSE IF /\ LitAtI(s, i, <<"n", "o">>)
            /\ CharAt(s, i + 2) \in SpaceCls
            /\ LitAtI(s, RunEnd(s, i + 2, SpaceCls), <<"m", "a'", "x", "i", "m", "o">>)
         THEN RunEnd(s, i + 2, SpaceCls) + 6
         ELSE 0

\* \s*R?\$?\s*([\d\.\,]+) from position j: <<first, last>> of group 1, <<>> when no match
PricePtTail(s, j) ==
    LET j1 == RunEnd(s, j, SpaceCls)
        j2 == IF Lower(CharAt(s, j1)) = "r" THEN j1 + 1 ELSE j1
        j3 == IF CharAt(s, j2) = "$" THEN j2 + 1 ELSE j2
        j4 == RunEnd(s, j3, SpaceCls)
        j5 == RunEnd(s, j4, NumCls)
    IN  IF j5 > j4 THEN <<j4, j5 - 1>> ELSE <<>>

\* the match of PRICE_PT_RE that starts at position i
PricePtMatchAt(s, i) ==
    LET ok == {a \in 1..6 : /\ PricePtTriggerEnd(s, i, a) # 0
                            /\ PricePtTail(s, PricePtTriggerEnd(s, i, a)) # <<>>}
    IN  IF ok = {} THEN <<>> ELSE PricePtTail(s, PricePtTriggerEnd(s, i, Min(ok)))

\* PRICE_PT_RE.search(s): group(1), or None
PRICE_PT_RE(s) ==
    LET hits == {i \in 1..Len(s) : PricePtMatchAt(s, i) # <<>>}
    IN  IF hits = {} THEN None
        ELSE LET g == PricePtMatchAt(s, Min(hits)) IN Some(SubSeq(s, g[1], g[2]))

\* PRICE_NUM_RE.search(s), (\d{2,3}[\.\d]{0,})\s*(?:mil)? : group(1) and group(0), or None
PRICE_NUM_RE(s) ==
    LET hits == {i \in 1..(Len(s) - 1) : s[i] \in DigitCls /\ s[i + 1] \in DigitCls}
    IN  IF hits = {} THEN None
        ELSE LET i  == Min(hits)
                 e1 == RunEnd(s, i, DotDigitCls)
                 e2 == RunEnd(s, e1, SpaceCls)
                 e3 == IF LitAtI(s, e2, <<"m", "i", "l">>) THEN e2 + 3 ELSE e2
             IN  Some([g1 |-> SubSeq(s, i, e1 - 1), g0 |-> SubSeq(s, i, e3 - 1)])

\* (?:19|20)\d{2} at position i
YearAt(s, i) == /\ (LitAt(s, i, <<"1", "9">>) \/ LitAt(s, i, <<"2", "0">>))
                /\ CharAt(s, i + 2) \in DigitCls
                /\ CharAt(s, i + 3) \in DigitCls

YEAR_MIN_ALTS == << <<"a", " ", "p", "a", "r", "t", "i", "r", " ", "d", "e">>, <<">", "=">>, <<"d", "e">> >>

\* the start of group 1 of the match of YEAR_MIN_RE that starts at i; 0 when none
YearMinMatchAt(s, i) ==
    LET ok == {a \in 1..3 : /\ LitAtI(s, i, YEAR_MIN_ALTS[a])
                            /\ YearAt(s, RunEnd(s, i + Len(YEAR_MIN_ALTS[a]), SpaceCls))}
    IN  IF ok = {} THEN 0 ELSE RunEnd(s, i + Len(YEAR_MIN_ALTS[Min(ok)]), SpaceCls)

\* YEAR_MIN_RE.search(s): group(1), or None
YEAR_MIN_RE(s) ==
    LET hits == {i \in 1..Len(s) : YearMinMatchAt(s, i) # 0}
    IN  IF hits = {} THEN None
        ELSE LET y == YearMinMatchAt(s, Min(hits)) IN Some(SubSeq(s, y, y + 3))

\* the start of group 2 of the match of YEAR_RANGE_RE that starts at i; 0 when none
YearRangeMatchAt(s, i) ==
    IF ~YearAt(s, i) THEN 0
    ELSE LET j == RunEnd(s, i + 4, SpaceCls)
         IN  IF CharAt(s, j) # "-" THEN 0
             ELSE LET k == RunEnd(s, j + 1, SpaceCls)
                  IN  IF YearAt(s, k) THEN k ELSE 0

\* YEAR_RANGE_RE.search(s): <<group(1), group(2)>>, or None
YEAR_RANGE_RE(s) ==
    LET hits == {i \in 1..Len(s) : YearRangeMatchAt(s, i) # 0}
    IN  IF hits = {} THEN None
        ELSE LET i == Min(hits)
                 k == YearRangeMatchAt(s, i)
             IN  Some(<<SubSeq(s, i, i + 3), SubSeq(s, k, k + 3)>>)

\* \b between positions p - 1 and p
WordBoundary(s, p) == (CharAt(s, p - 1) \in WordCls) # (CharAt(s, p) \in WordCls)

\* (mutant: the pattern without its \b anchors)
DoorsMatchAt_unanchored(s, i) ==
    /\ CharAt(s, i) \in {"2", "4", "5"}
    /\ LitAtI(s, RunEnd(s, i + 1, SpaceCls), <<"p", "o", "r", "t", "a", "s">>)

\* whether DOORS_RE, (\b2\b|\b4\b|\b5\b)\s*portas, matches at position i
DoorsMatchAt(s, i) ==
    /\ CharAt(s, i) \in {"2", "4", "5"}
    /\ WordBoundary(s, i)
    /\ WordBoundary(s, i + 1)
    /\ LitAtI(s, RunEnd(s, i + 1, SpaceCls), <<"p", "o", "r", "t", "a", "s">>)

\* DOORS_RE.search(s): group(1), or None
DOORS_RE(s) ==
    LET hits == {i \in 1..Len(s) : DoorsMatchAt(s, i)}
    IN  IF hits = {} THEN None ELSE Some(<<s[Min(hits)]>>)

---------------------------------------------------------------------------
\* views.py: the filter extractor

RECURSIVE _normalize(_)
_normalize(txt) ==
    IF txt = <<>> THEN <<>>
    ELSE LowerSeq(AsciiIgnore(NFKD(Head(txt)))) \o _normalize(Tail(txt))

\* float(raw) in hundredths, None for the ValueError: digits, with at most one
\* "." followed by at most two digits (raw holds no "." here: group 1 of
\* PRICE_NUM_RE holds no ",")
ParseFloat(raw) ==
    LET dots == {i \in 1..Len(raw) : raw[i] = "."}
    IN  IF raw = <<>> \/ \E i \in 1..Len(raw) : raw[i] \notin DotDigitCls THEN None
        ELSE IF dots = {} THEN Some(100 * IntOf(raw))
        ELSE IF Cardinality(dots) > 1 \/ Len(raw) = 1 \/ Len(raw) - Min(dots) > 2 THEN None
        ELSE LET d    == Min(dots)
                 frac == SubSeq(raw, d + 1, Len(raw))
             IN  Some(100 * IntOf(SubSeq(raw, 1, d - 1))
                        + (IF Len(frac) = 1 THEN 10 * IntOf(frac) ELSE IntOf(frac)))

_pt_money_to_decimal(txt) ==
    LET m == PRICE_NUM_RE(Strip(txt))
    IN  IF m = None THEN None
        ELSE LET raw == Replace(Replace(Val(m).g1, ".", <<>>), ",", <<".">>)
                 val == ParseFloat(raw)
             IN  IF val = None THEN None
                 ELSE IF Val(val) < 1000 * 100 THEN Some(Val(val) * 1000)
                 ELSE val

\* (mutant: the entry whose key occurs leftmost in the text)
FirstMatch_leftmost_in_text(table, norm) ==
    LET hits == {i \in 1..Len(table) : Contains(norm, table[i][1])}
        at   == [i \in hits |-> Min({p \in 1..Len(norm) : LitAt(norm, p, table[i][1])})]
    IN  IF hits = {} THEN None
        ELSE Some(table[CHOOSE i \in hits : \A j \in hits :
                            at[i] < at[j] \/ (at[i] = at[j] /\ i <= j)][2])

\* the first entry of a synonym table whose key occurs in norm
FirstMatch(table, norm) ==
    LET hits == {i \in 1..Len(table) : Contains(norm, table[i][1])}
    IN  IF hits = {} THEN None ELSE Some(table[Min(hits)][2])

\* "if val:" on an Optional[Decimal]
Truthy(o) == IsSet(o) /\ Val(o) # 0

parse_price_max(norm) ==
    LET m == PRICE_PT_RE(norm)
    IN  IF m # None
        THEN LET val == _pt_money_to_decimal(Val(m))
             IN  IF Truthy(val) THEN val ELSE None
        ELSE IF Contains(norm, <<"m", "i", "l">>)
             THEN LET m2 == PRICE_NUM_RE(norm)
                  IN  IF m2 # None
                      THEN LET val == _pt_money_to_decimal(Val(m2).g0)
                           IN  IF Truthy(val) THEN val ELSE None
                      ELSE None
             ELSE None

parse_year_min(norm) ==
    LET m == YEAR_MIN_RE(norm)
    IN  IF m # None THEN Some(IntOf(Val(m))) ELSE None

\* (mutant: the pair as written, not ordered)
parse_year_range_as_written(norm) ==
    LET m == YEAR_RANGE_RE(norm)
    IN  IF m # None THEN Some(<<IntOf(Val(m)[1]), IntOf(Val(m)[2])>>) ELSE None

parse_year_range(norm) ==
    LET m == YEAR_RANGE_RE(norm)
    IN  IF m # None
        THEN LET a == IntOf(Val(m)[1])
                 b == IntOf(Val(m)[2])
             IN  Some(<<Min({a, b}), Max({a, b})>>)
        ELSE None

parse_doors(norm) ==
    LET m == DOORS_RE(norm)
    IN  IF m # None THEN Some(IntOf(Val(m))) ELSE None

\* (mutant: only the dimensions that were found are put in the mapping)
parse_filters_sparse(user_msg) ==
    LET norm == _normalize(user_msg)
        f    == [body_type    |-> FirstMatch(BODY_TYPES, norm),
                 transmission |-> FirstMatch(TRANSMISSIONS, norm),
                 fuel         |-> FirstMatch(FUELS, norm),
                 price_max    |-> parse_price_max(norm),
                 year_min     |-> parse_year_min(norm),
                 year_range   |-> parse_year_range(norm),
                 doors        |-> parse_doors(norm)]
    IN  [k \in {x \in DOMAIN f : f[x] # None} |-> f[k]]

parse_filters(user_msg) ==
    LET norm == _normalize(user_msg)
    IN  [body_type    |-> FirstMatch(BODY_TYPES, norm),
         transmission |-> FirstMatch(TRANSMISSIONS, norm),
         fuel         |-> FirstMatch(FUELS, norm),
         price_max    |-> parse_price_max(norm),
         year_min     |-> parse_year_min(norm),
         year_range   |-> parse_year_range(norm),
         doors        |-> parse_doors(norm)]

---------------------------------------------------------------------------
\* views.py, vehicle_chat_view: the filters as the response carries them

\* the decimal digits of a natural number
RECURSIVE IntToDigits(_)
IntToDigits(n) == IF n < 10 THEN <<DIGITS[n + 1]>>
                  ELSE IntToDigits(n \div 10) \o <<DIGITS[(n % 10) + 1]>>

\* str(v) of a Decimal of two places, given in hundredths
DecimalStr(c) == IntToDigits(c \div 100) \o <<".">>
                   \o <<DIGITS[((c % 100) \div 10) + 1], DIGITS[(c % 10) + 1]>>

\* {k: (str(v) if isinstance(v, Decimal) else v) for k, v in filters.items()}
filters_applied(f) ==
    [k \in DOMAIN f |-> IF k = "price_max" /\ IsSet(f[k])
                        THEN Some(DecimalStr(Val(f[k])))
                        ELSE f[k]]

---------------------------------------------------------------------------
\* The inputs of the extractor: texts joined from phrases, and price texts

MaxParts == 2

MaxGroups == 2

Parts == << <<"S", "U", "V">>,
            <<"a", "u", "t", "o", "m", "a'", "t", "i", "c", "o">>,
            <<"g", "a", "s", "o", "l", "i", "n", "a">>,
            <<"a", "t", "e'", " ", "R", "$", " ", "9", "5", ".", "0", "0", "0">>,
            <<"a", " ", "p", "a", "r", "t", "i", "r", " ", "d", "e", " ", "2", "0", "2", "0">>,
            <<"2", "0", "1", "7", "-", "2", "0", "2", "2">>,
            <<"2", "0", "2", "2", " ", "-", " ", "2", "0", "1", "7">>,
            <<"d", "e", " ", "2", "0", "2", "1", "-", "2", "0", "1", "9">>,
            <<"4", " ", "p", "o", "r", "t", "a", "s">>,
            <<"2", " ", "P", "o", "r", "t", "a", "s">>,
            <<"a", "n", "o", " ", "2", "0", "0", "4">>,
            <<"2", "0", "0", "4", " ", "p", "o", "r", "t", "a", "s">>,
            <<"5", "p", "o", "r", "t", "a", "s">>,
            <<"3", " ", "p", "o", "r", "t", "a", "s">>,
            <<"1", "2", "0", " ", "m", "i", "l">>,
            <<"h", "a", "t", "c", "h">>,
            <<"m", "a", "n", "u", "a", "l", " ", "f", "l", "e", "x">> >>

\* the phrases of a sequence of indices, joined by a space
RECURSIVE Join(_)
Join(ix) == IF ix = <<>> THEN <<>>
            ELSE IF Len(ix) = 1 THEN Parts[ix[1]]
            ELSE Parts[ix[1]] \o <<" ">> \o Join(Tail(ix))

PhraseTexts == {Join(ix) : ix \in UNION {[1..n -> 1..Len(Parts)] : n \in 0..MaxParts}}

\* a price text: a trigger phrase (or none), a currency sign (or none), a
\* numeric token, "mil" (or not); a token is a head and up to MaxGroups groups
PriceTriggers == << <<"a", "t", "e'", " ">>, <<"a", "t", "e", " ">>, <<"<", "=", " ">>, <<"<">>, <<"p", "o", "r", " ">>, <<"n", "o", " ", "m", "a'", "x", "i", "m", "o", " ">>, <<>> >>

Currency == << <<>>, <<"R", "$", " ">> >>

TokHeads == << <<"5">>, <<"8", "0">>, <<"1", "2", "0">>, <<"1">>, <<"0", "0">> >>

TokGroups == << <<".", "0", "0", "0">>, <<".", "5", "0", "0">>, <<",", "5", "0">>, <<"0", "0", "0">> >>

MilSuffix == << <<>>, <<" ", "m", "i", "l">> >>

RECURSIVE Groups(_)
Groups(ix) == IF ix = <<>> THEN <<>> ELSE TokGroups[Head(ix)] \o Groups(Tail(ix))

\* (at most 7 digits, so that a price in hundredths stays below 2^31)
Tokens == {tok \in {TokHeads[h] \o Groups(ix) :
                      h \in 1..Len(TokHeads),
                      ix \in UNION {[1..n -> 1..Len(TokGroups)] : n \in 0..MaxGroups}} :
             Cardinality({i \in 1..Len(tok) : tok[i] \in DigitCls}) <= 7}

PriceTexts == {PriceTriggers[t] \o Currency[c] \o tok \o MilSuffix[m] :
                 t \in 1..Len(PriceTriggers), c \in 1..Len(Currency),
                 tok \in Tokens, m \in 1..Len(MilSuffix)}

ParseInputs == PhraseTexts \cup PriceTexts

FilterKeys == {"body_type", "transmission", "fuel", "price_max", "year_min",
               "year_range", "doors"}

\* the messages of the chat requests
Messages == << <<"Q", "u", "e", "r", "o", " ", "S", "U", "V", " ", "a", "u", "t", "o", "m", "a'", "t", "i", "c", "o", " ", "a", "t", "e'", " ", "1", "2", "0", " ", "m", "i", "l">>,
               <<"P", "r", "o", "c", "u", "r", "o", " ", "S", "U", "V", " ", "a", "u", "t", "o", "m", "a'", "t", "i", "c", "o", " ", "a", "t", "e'", " ", "R", "$", " ", "1", "2", "0", ".", "0", "0", "0">>,
               <<"Q", "u", "e", "r", "o", " ", "e", "l", "e'", "t", "r", "i", "c", "o", " ", "d", "i", "e", "s", "e", "l", " ", "c", "u", "p", "e^", " ", "2", " ", "p", "o", "r", "t", "a", "s", " ", "a", "t", "e'", " ", "R", "$", " ", "1", "0", ".", "0", "0", "0">>,
               <<" ", "h", "a", "t", "c", "h", " ", "m", "a", "n", "u", "a", "l", " ">>,
               <<"c", "a", "r", "r", "o", "s">>,
               <<"2", "0", "1", "9", "-", "2", "0", "2", "1", " ", "4", " ", "p", "o", "r", "t", "a", "s">>,
               <<"a", " ", "p", "a", "r", "t", "i", "r", " ", "d", "e", " ", "2", "0", "2", "0">>,
               <<"p", "i", "c", "k", "u", "p", " ", "d", "i", "e", "s", "e", "l", " ", "a", "u", "t", "o", "m", "a", "t", "i", "c", "a">>,
               <<"s", "u", "v", " ", "a", " ", "g", "a", "s", "o", "l", "i", "n", "a", " ", "2", "0", "2", "2">> >>

\* the variables of the chat service, at rest
ServiceIdle == /\ store = {}
               /\ clock = 1
               /\ req = [method |-> "none"]
               /\ llm = "none"
               /\ rfilters = None
               /\ resp = [kind |-> "none", status |-> 0]
               /\ effects = [queries |-> <<>>, calls |-> <<>>, sent |-> <<>>]

\* the variables of the other specifications, unused
NoCall == [fn |-> "none"]

CallIdle == /\ call = NoCall
            /\ ret = None

NoSeed == [cmd |-> "none"]

NoCreate == [by |-> "none"]

SeedIdle == /\ seed = NoSeed
            /\ lastcreate = NoCreate

SumIdle == /\ qresult = None
           /\ rs = <<>>
           /\ summary = None

NoView == [pc |-> "idle"]

ViewIdle == view = NoView

SideIdle == /\ SumIdle
            /\ CallIdle
            /\ SeedIdle
            /\ ViewIdle

ParseInit == /\ msg \in ParseInputs
             /\ filters = None
             /\ applied = None
             /\ pstate = "input"
             /\ ServiceIdle
             /\ SideIdle

\* parse_filters(user_msg) is called and returns
Parse == /\ pstate = "input"
         /\ filters' = Some(parse_filters(msg))
         /\ pstate' = "parsed"
         /\ UNCHANGED <<msg, applied, serviceVars, sideVars>>

\* the response's filters_applied is built from the filters
Serialize == /\ pstate = "parsed"
             /\ applied' = Some(filters_applied(Val(filters)))
             /\ pstate' = "serialized"
             /\ UNCHANGED <<msg, filters, serviceVars, sideVars>>

ParseNext == Parse \/ Serialize

SpecParse == ParseInit /\ [][ParseNext]_vars

---------------------------------------------------------------------------
\* models.py: the Vehicle table.  store is the set of its rows.

\* the vehicles that get created: the two of tests/test_views.py and two as
\* the seeding commands write them (lower-case, unaccented categories)
Kinds == <<
    [brand |-> "Jeep", model |-> "Compass", year |-> 2021, engine |-> "1.3 Turbo",
     fuel_type |-> <<"f", "l", "e", "x">>, color |-> "Preto", mileage_km |-> 25000, doors |-> 4,
     transmission |-> <<"A", "u", "t", "o", "m", "a'", "t", "i", "c", "a">>, body_type |-> <<"S", "U", "V">>, price |-> 11900000],
    [brand |-> "Fiat", model |-> "Argo", year |-> 2019, engine |-> "1.0",
     fuel_type |-> <<"f", "l", "e", "x">>, color |-> "Branco", mileage_km |-> 40000, doors |-> 4,
     transmission |-> <<"M", "a", "n", "u", "a", "l">>, body_type |-> <<"H", "a", "t", "c", "h">>, price |-> 4800000],
    [brand |-> "Toyota", model |-> "Hilux", year |-> 2015, engine |-> "2.0",
     fuel_type |-> <<"d", "i", "e", "s", "e", "l">>, color |-> "prata", mileage_km |-> 120000, doors |-> 2,
     transmission |-> <<"a", "u", "t", "o", "m", "a", "t", "i", "c", "a">>, body_type |-> <<"p", "i", "c", "k", "u", "p">>, price |-> 20000050],
    [brand |-> "Honda", model |-> "HR-V", year |-> 2022, engine |-> "1.5 Turbo",
     fuel_type |-> <<"g", "a", "s", "o", "l", "i", "n", "a">>, color |-> "preto", mileage_km |-> 10000, doors |-> 4,
     transmission |-> <<"c", "v", "t">>, body_type |-> <<"s", "u", "v">>, price |-> 14800000] >>

\* a row: the fields given to create(), the primary key, the VIN and
\* created_at (auto_now_add)
MkVehicle(k, id, vin, now) ==
    [id |-> id, vin |-> vin, created_at |-> now,
     brand |-> Kinds[k].brand, model |-> Kinds[k].model, year |-> Kinds[k].year,
     engine |-> Kinds[k].engine, fuel_type |-> Kinds[k].fuel_type,
     color |-> Kinds[k].color, mileage_km |-> Kinds[k].mileage_km,
     doors |-> Kinds[k].doors, transmission |-> Kinds[k].transmission,
     body_type |-> Kinds[k].body_type, price |-> Kinds[k].price]

\* the first n elements of a sequence (a slice [:n])
Take(s, n) == SubSeq(s, 1, IF n < Len(s) THEN n ELSE Len(s))

\* order_by("-created_at") (Meta.ordering): newest first.  created_at values
\* are distinct: the clock advances between two creations.
RECURSIVE OrderByCreatedDesc(_)
OrderByCreatedDesc(rows) ==
    IF rows = {} THEN <<>>
    ELSE LET newest == CHOOSE r \in rows : \A o \in rows : o.created_at <= r.created_at
         IN  <<newest>> \o OrderByCreatedDesc(rows \ {newest})

---------------------------------------------------------------------------
\* views.py: the query translator

\* equality that tells upper case from lower case
IExact_case_sensitive(a, b) == a = b

\* field__iexact=value
IExact(a, b) == LowerSeq(a) = LowerSeq(b)

\* "if f[...]:" on an Optional[str]
TruthyStr(o) == IsSet(o) /\ Val(o) # <<>>

\* the k-th "if f[...]: qs = qs.filter(...)" of query_from_filters
FilterStep(k, f, rows) ==
    CASE k = 1 -> IF TruthyStr(f.body_type)
                  THEN {r \in rows : IExact(r.body_type, Val(f.body_type))}
                  ELSE rows
      [] k = 2 -> IF TruthyStr(f.transmission)
                  THEN {r \in rows : IExact(r.transmission, Val(f.transmission))}
                  ELSE rows
      [] k = 3 -> IF TruthyStr(f.fuel)
                  THEN {r \in rows : IExact(r.fuel_type, Val(f.fuel))}
                  ELSE rows
      [] k = 4 -> IF Truthy(f.price_max)
                  THEN {r \in rows : r.price <= Val(f.price_max)}
                  ELSE rows
      [] k = 5 -> IF Truthy(f.year_min)
                  THEN {r \in rows : r.year >= Val(f.year_min)}
                  ELSE rows
      [] k = 6 -> IF IsSet(f.year_range)
                  THEN {r \in rows : /\ r.year >= Val(f.year_range)[1]
                                     /\ r.year <= Val(f.year_range)[2]}
                  ELSE rows
      [] k = 7 -> IF Truthy(f.doors)
                  THEN {r \in rows : r.doors = Val(f.doors)}
                  ELSE rows

\* the filter steps applied in a given order
RECURSIVE ApplyFilters(_, _, _)
ApplyFilters(order, f, rows) ==
    IF order = <<>> THEN rows
    ELSE ApplyFilters(Tail(order), f, FilterStep(Head(order), f, rows))

\* query_from_filters(f) evaluated on the table st
query_from_filters(f, st) == ApplyFilters(<<1, 2, 3, 4, 5, 6, 7>>, f, st)

---------------------------------------------------------------------------
\* views.py: serialisation, summary, context, suggestions, prompts, fallback

vehicle_to_dict(v) ==
    [brand |-> v.brand, model |-> v.model, year |-> v.year, engine |-> v.engine,
     fuel_type |-> v.fuel_type, color |-> v.color, mileage_km |-> v.mileage_km,
     doors |-> v.doors, transmission |-> v.transmission, body_type |-> v.body_type,
     price |-> v.price, vin |-> v.vin]

\* f"{n:,.0f}" of a natural number: its digits, a comma before every group
\* of three
RECURSIVE ThousandsCommas(_)
ThousandsCommas(n) ==
    IF n < 1000 THEN IntToDigits(n)
    ELSE ThousandsCommas(n \div 1000)
           \o <<",", DIGITS[((n % 1000) \div 100) + 1], DIGITS[((n % 100) \div 10) + 1],
                DIGITS[(n % 10) + 1]>>

\* str.replace(old, new) for a sequence old: the occurrences from the left,
\* not overlapping
RECURSIVE ReplaceSub(_, _, _)
ReplaceSub(s, old, new) ==
    IF Len(s) < Len(old) THEN s
    ELSE IF SubSeq(s, 1, Len(old)) = old
    THEN new \o ReplaceSub(SubSeq(s, Len(old) + 1, Len(s)), old, new)
    ELSE <<Head(s)>> \o ReplaceSub(Tail(s), old, new)

STEP == 20000

\* lines 267-272: low and high of the band of a price, in whole currency
\* units (the price is in hundredths)
band_bounds(price) ==
    <<((price \div 100) \div STEP) * STEP, (((price \div 100) \div STEP) + 1) * STEP - 1>>

\* line 273: the f-string before the replace calls
band_text(low, high) ==
    <<"R", "$", " ">> \o ThousandsCommas(low) \o <<" ", "-", " ", "R", "$", " ">> \o ThousandsCommas(high)

\* line 273: the label, formatted and then passed through the three replace
\* calls, one after the other
band_label(low, high) ==
    CHOOSE label \in
        {ReplaceSub(commas, <<",", "0", "0">>, <<>>) :
            commas \in {Replace(dots, ".", <<",">>) :
                dots \in {Replace(text, ",", <<".">>) :
                    text \in {band_text(low, high)}}}} : TRUE

\* _price_band(price): the label of the 20,000-wide band of the price
_price_band(price) == band_label(band_bounds(price)[1], band_bounds(price)[2])

\* the groups, given as <<key, count, position of the first row>>, with the
\* largest count first; equal counts in the order of their first row
RECURSIVE SortGroups(_)
SortGroups(groups) ==
    IF groups = {} THEN <<>>
    ELSE LET top == CHOOSE g \in groups :
                       \A h \in groups : \/ g[2] > h[2]
                                          \/ (g[2] = h[2] /\ g[3] <= h[3])
         IN  <<[key |-> top[1], count |-> top[2]]>> \o SortGroups(groups \ {top})

\* rows grouped by a key, each group with its count, in the order of
\* SortGroups; keyed[i] is the key of row i
CountBy(keyed) ==
    SortGroups({<<g, Cardinality({i \in 1..Len(keyed) : keyed[i] = g}),
                  Min({i \in 1..Len(keyed) : keyed[i] = g})>> :
                    g \in {keyed[i] : i \in 1..Len(keyed)}})

\* r["..."] or "Indefinido"
OrIndefinido(label) == IF label = <<>> THEN <<"I", "n", "d", "e", "f", "i", "n", "i", "d", "o">> ELSE label

\* qs.values("body_type")
BodyOf(rows) == [i \in 1..Len(rows) |-> rows[i].body_type]

\* qs.values("fuel_type")
FuelOf(rows) == [i \in 1..Len(rows) |-> rows[i].fuel_type]

\* the band of each row
BandOf(rows) ==
    SubSeq([i \in 1..Len(rows) |-> _price_band(rows[i].price)], 1, Len(rows))

SAMPLE_LIMIT == 300

TOP_BANDS == 10

\* price bands counted over every row
price_samples_unbounded(rows) ==
    CHOOSE counted \in {CountBy(bands) : bands \in {BandOf(rows)}} : TRUE

\* price_samples of lines 299-306: the bands of the first SAMPLE_LIMIT rows
\* with their counts, the largest first
price_samples(rows) ==
    CHOOSE counted \in
        {CountBy(bands) : bands \in {BandOf(Take(rows, SAMPLE_LIMIT))}} : TRUE

\* line 310: the result rows of the body types, from their counts
BodyGroups(counted) ==
    [p \in 1..Len(counted) |->
        [body_type |-> OrIndefinido(counted[p].key), count |-> counted[p].count]]

\* lines 284-288 and 310: the body types with their counts, evaluated when
\* the result is built; rows is qs in its order
by_body(rows) == BodyGroups(CountBy(BodyOf(rows)))

\* line 311: the result rows of the fuels, from their counts
FuelGroups(counted) ==
    [p \in 1..Len(counted) |->
        [fuel_type |-> OrIndefinido(counted[p].key), count |-> counted[p].count]]

\* lines 289-293 and 311
by_fuel(rows) == FuelGroups(CountBy(FuelOf(rows)))

\* the smallest and the largest of the years, 0 for none
YearSpan(years) ==
    [min |-> IF years = {} THEN 0 ELSE Min(years),
     max |-> IF years = {} THEN 0 ELSE Max(years)]

\* lines 295-297
year_span(rows) == YearSpan({rows[i].year : i \in 1..Len(rows)})

\* lines 309 and 312: the bands with the largest counts
TopBands(bands) ==
    [p \in 1..Len(Take(bands, TOP_BANDS)) |->
        [band |-> bands[p].key, count |-> bands[p].count]]

\* lines 299-309 and 312
top_price_bands(rows) == TopBands(price_samples(rows))

\* summarize_queryset(qs)
summarize_queryset(rows) ==
    [total           |-> Len(rows),
     by_body         |-> by_body(rows),
     by_fuel         |-> by_fuel(rows),
     year_span       |-> year_span(rows),
     top_price_bands |-> top_price_bands(rows)]

\* one example line of the context: every field of the row
ContextLine(v) ==
    [tag |-> "example", brand |-> v.brand, model |-> v.model, year |-> v.year,
     body_type |-> v.body_type, transmission |-> v.transmission,
     fuel_type |-> v.fuel_type, engine |-> v.engine, doors |-> v.doors,
     color |-> v.color, mileage_km |-> v.mileage_km, price |-> DecimalStr(v.price),
     vin |-> v.vin]

\* qs.order_by("-created_at") of a queryset given as the sequence of its rows
order_by_created(rows) == OrderByCreatedDesc({rows[i] : i \in 1..Len(rows)})

\* the example lines of lines 349-359
context_examples(recent, max_lines) ==
    [i \in 1..Len(Take(recent, max_lines)) |-> ContextLine(recent[i])]

\* lines 322-366: the lines of the text, from the summary s and the example
\* lines
context_lines(s, examples) ==
    <<[tag |-> "total", total |-> s.total],
      [tag |-> "years", min |-> s.year_span.min, max |-> s.year_span.max]>>
    \o (IF s.by_body # <<>>
        THEN <<[tag |-> "by_body", groups |-> Take(s.by_body, 8)]>> ELSE <<>>)
    \o (IF s.by_fuel # <<>>
        THEN <<[tag |-> "by_fuel", groups |-> Take(s.by_fuel, 8)]>> ELSE <<>>)
    \o (IF s.top_price_bands # <<>>
        THEN <<[tag |-> "price_bands", groups |-> Take(s.top_price_bands, 8)]>>
        ELSE <<>>)
    \o <<[tag |-> "blank"]>>
    \o (IF examples = <<>>
        THEN <<[tag |-> "no_vehicle_found"]>>
        ELSE <<[tag |-> "samples"]>> \o examples)

\* make_catalog_context(qs, max_lines): the lines of the text
make_catalog_context(rows, max_lines) ==
    context_lines(summarize_queryset(rows),
                  context_examples(order_by_created(rows), max_lines))

\* (mutant: the list returned whole, without the [:6] of line 389)
build_suggestions_uncapped(f, qs_total) ==
    (IF qs_total > 40
     THEN <<"Filtrar por ano minimo (ex.: a partir de 2020)",
            "Definir um teto de preco (ex.: ate R$ 120.000)",
            "Escolher transmissao (Manual/Automatica/CVT)">>
     ELSE <<>>)
    \o (IF ~TruthyStr(f.body_type)
        THEN <<"Mostrar apenas SUVs", "Ver Hatch ate R$ 80.000">> ELSE <<>>)
    \o (IF ~TruthyStr(f.fuel)
        THEN <<"Apenas Flex", "Diesel para uso rodoviario">> ELSE <<>>)
    \o (IF ~Truthy(f.doors) THEN <<"Quero 4 portas">> ELSE <<>>)

\* build_suggestions(filters, qs_total)
build_suggestions(f, qs_total) ==
    Take((IF qs_total > 40
          THEN <<"Filtrar por ano minimo (ex.: a partir de 2020)",
                 "Definir um teto de preco (ex.: ate R$ 120.000)",
                 "Escolher transmissao (Manual/Automatica/CVT)">>
          ELSE <<>>)
         \o (IF ~TruthyStr(f.body_type)
             THEN <<"Mostrar apenas SUVs", "Ver Hatch ate R$ 80.000">> ELSE <<>>)
         \o (IF ~TruthyStr(f.fuel)
             THEN <<"Apenas Flex", "Diesel para uso rodoviario">> ELSE <<>>)
         \o (IF ~Truthy(f.doors) THEN <<"Quero 4 portas">> ELSE <<>>),
         6)

\* a turn of the history as the JSON payload carries it: an object with or
\* without the keys "role" and "content", or a value that is no object
Turn(type, role, content) == [type |-> type, role |-> role, content |-> content]

\* history[-6:]
LastSix(history) ==
    SubSeq(history, IF Len(history) > 6 THEN Len(history) - 5 ELSE 1, Len(history))

\* (mutant: every turn of the history is sent)
build_llm_messages_whole_history(user_msg, history, context_text) ==
    IF \E i \in 1..Len(history) : history[i].type # "object"
    THEN [raised |-> "AttributeError", msgs |-> <<>>]
    ELSE [raised |-> "",
          msgs |-> <<[role |-> "system", content |-> "system_prompt"]>>
                   \o [i \in 1..Len(history) |->
                         [role    |-> IF history[i].role = Some("user")
                                      THEN "user" ELSE "assistant",
                          content |-> IF IsSet(history[i].content)
                                      THEN Val(history[i].content) ELSE <<>>]]
                   \o <<[role |-> "user",
                         content |-> [user_msg |-> user_msg, context |-> context_text]]>>]

\* build_llm_messages(user_msg, history, context_text): the list, or the
\* exception of h.get on a turn that is no object
build_llm_messages(user_msg, history, context_text) ==
    IF \E i \in 1..Len(LastSix(history)) : LastSix(history)[i].type # "object"
    THEN [raised |-> "AttributeError", msgs |-> <<>>]
    ELSE [raised |-> "",
          msgs |-> <<[role |-> "system", content |-> "system_prompt"]>>
                   \o [i \in 1..Len(LastSix(history)) |->
                         [role    |-> IF LastSix(history)[i].role = Some("user")
                                      THEN "user" ELSE "assistant",
                          content |-> IF IsSet(LastSix(history)[i].content)
                                      THEN Val(LastSix(history)[i].content) ELSE <<>>]]
                   \o <<[role |-> "user",
                         content |-> [user_msg |-> user_msg, context |-> context_text]]>>]

\* one example line of the fallback reply
FallbackLine(v) ==
    [tag |-> "example", brand |-> v.brand, model |-> v.model, year |-> v.year,
     body_type |-> v.body_type, transmission |-> v.transmission,
     fuel_type |-> v.fuel_type, price |-> DecimalStr(v.price),
     mileage_km |-> v.mileage_km]

\* the example lines of lines 443-449
fallback_examples(recent, limit) ==
    [i \in 1..Len(Take(recent, limit)) |-> FallbackLine(recent[i])]

\* (mutant: the slice [:limit] of line 444 left out)
fallback_reply_unlimited(user_msg, rows, limit) ==
    IF Len(rows) = 0
    THEN <<[tag |-> "no_options_found"]>>
    ELSE <<[tag |-> "found", total |-> Len(rows)], [tag |-> "some_suggestions"]>>
         \o fallback_examples(order_by_created(rows), Len(rows))
         \o <<[tag |-> "offer_filters"]>>

\* fallback_reply(user_msg, qs, limit): the lines of the text
fallback_reply(user_msg, rows, limit) ==
    IF Len(rows) = 0
    THEN <<[tag |-> "no_options_found"]>>
    ELSE <<[tag |-> "found", total |-> Len(rows)], [tag |-> "some_suggestions"]>>
         \o fallback_examples(order_by_created(rows), limit)
         \o <<[tag |-> "offer_filters"]>>

---------------------------------------------------------------------------
\* views.py: vehicle_chat_view

ITEMS_LIMIT == 12345678

CONTEXT_MAX_LINES == 140

FALLBACK_LIMIT == 5

\* how the text-generation collaborator behaves for one request: the package
\* cannot be imported, OPENAI_API_KEY is not set, OpenAI(api_key=...) raises,
\* the call returns a text, returns a message without content, or raises
NoClient == {"no_package", "no_api_key", "init_raises"}

CallRaises == {"RateLimitError", "AuthenticationError", "APIConnectionError",
               "APIError", "IndexError", "Exception"}

LlmBehaviours == NoClient \cup {"text", "no_content"} \cup CallRaises

\* the result without the relaxation of lines 482-483
effective_qs_unrelaxed(matched, st) == OrderByCreatedDesc(matched)

\* the count of line 479, not taken again at line 484
total_matches_first_count(matched, st) == Cardinality(matched)

\* qs after lines 477-483, in its order; matched is query_from_filters(f)
\* on the table st
effective_qs(matched, st) ==
    IF Cardinality(matched) = 0 THEN OrderByCreatedDesc(st)
    ELSE OrderByCreatedDesc(matched)

\* total_matches after lines 479-484
total_matches(matched, st) ==
    IF Cardinality(matched) = 0 THEN Cardinality(st) ELSE Cardinality(matched)

\* a reply_text whose except clause answers with an error text
reply_text_without_fallback(user_msg, history, rows, context_text, l) ==
    IF l \in NoClient
    THEN [text  |-> fallback_reply(user_msg, rows, FALLBACK_LIMIT),
          calls |-> <<"fallback_reply">>, sent |-> <<>>]
    ELSE IF l = "text"
    THEN [text  |-> <<[tag |-> "llm", text |-> "completion"]>>,
          calls |-> <<"OpenAI()", "chat.completions.create">>, sent |-> <<>>]
    ELSE [text  |-> <<[tag |-> "error", text |-> l]>>,
          calls |-> <<"OpenAI()", "chat.completions.create">>, sent |-> <<>>]

\* the try block of lines 506-516 with a client: built is what
\* build_llm_messages returned or raised
reply_with_client(user_msg, rows, l, built) ==
    IF built.raised # ""
    THEN [text  |-> fallback_reply(user_msg, rows, FALLBACK_LIMIT),
          calls |-> <<"OpenAI()", "fallback_reply">>,
          sent  |-> <<>>]
    ELSE IF l = "text"
    THEN [text  |-> <<[tag |-> "llm", text |-> "completion"]>>,
          calls |-> <<"OpenAI()", "chat.completions.create">>,
          sent  |-> built.msgs]
    ELSE IF l = "no_content"
    THEN [text  |-> <<>>,
          calls |-> <<"OpenAI()", "chat.completions.create">>,
          sent  |-> built.msgs]
    ELSE [text  |-> fallback_reply(user_msg, rows, FALLBACK_LIMIT),
          calls |-> <<"OpenAI()", "chat.completions.create", "fallback_reply">>,
          sent  |-> built.msgs]

\* reply_text and the calls made for it (lines 495-518)
reply_text(user_msg, history, rows, context_text, l) ==
    IF l \in NoClient
    THEN [text  |-> fallback_reply(user_msg, rows, FALLBACK_LIMIT),
          calls |-> (IF l = "init_raises" THEN <<"OpenAI()">> ELSE <<>>)
                      \o <<"fallback_reply">>,
          sent  |-> <<>>]
    ELSE reply_with_client(user_msg, rows, l,
                           build_llm_messages(user_msg, history, context_text))

\* parse_filters on the messages of the requests, computed once
UserMessages == [i \in 1..Len(Messages) |-> Strip(Messages[i])]

ParseMemo == [i \in 1..Len(Messages) |-> parse_filters(UserMessages[i])]

parse_filters_of(user_msg) ==
    IF \E i \in 1..Len(Messages) : UserMessages[i] = user_msg
    THEN ParseMemo[CHOOSE i \in 1..Len(Messages) : UserMessages[i] = user_msg]
    ELSE parse_filters(user_msg)

BadRequest(reason) ==
    [resp    |-> [kind |-> "bad_request", status |-> 400, reason |-> reason],
     filters |-> None, queries |-> <<>>, calls |-> <<>>, sent |-> <<>>]

\* lines 521-537: the response, with what was done for it
view_response(f, total, relaxed, items, reply) ==
    [resp |-> [kind            |-> "json",
               status          |-> 200,
               reply           |-> reply.text,
               suggestions     |-> build_suggestions(f, total),
               items           |-> items,
               total_matches   |-> total,
               filters_applied |-> filters_applied(f)],
     filters |-> Some(f),
     queries |-> <<"count">> \o (IF relaxed THEN <<"count">> ELSE <<>>)
                   \o <<"items", "count", "aggregate", "prices", "by_body",
                        "by_fuel", "examples">>
                   \o (IF "fallback_reply" \in {reply.calls[i] : i \in 1..Len(reply.calls)}
                       THEN <<"count", "recent">> ELSE <<>>),
     calls   |-> reply.calls,
     sent    |-> reply.sent]

\* lines 486-518: items, the context and the reply for the effective rows
view_reply(user_msg, history, l, f, total, relaxed, rows) ==
    view_response(f, total, relaxed,
                  [i \in 1..Len(Take(rows, ITEMS_LIMIT)) |-> vehicle_to_dict(rows[i])],
                  reply_text(user_msg, history, rows,
                             make_catalog_context(rows, CONTEXT_MAX_LINES), l))

\* lines 477-484: the query, its count and the relaxation
view_query(user_msg, history, l, f, matched, st) ==
    view_reply(user_msg, history, l, f, total_matches(matched, st),
               Cardinality(matched) = 0, effective_qs(matched, st))

\* lines 476-477: the filters and the rows they select
view_filters(user_msg, history, l, f, st) ==
    view_query(user_msg, history, l, f, query_from_filters(f, st), st)

\* the POST branch after the payload was read (lines 475-537)
chat_response(user_msg, history, l, st) ==
    view_filters(user_msg, history, l, parse_filters_of(user_msg), st)

\* a view without the "if not user_msg" of line 470
vehicle_chat_view_unchecked(request, l, st) ==
    IF request.body # "object" THEN BadRequest("Payload invalido.")
    ELSE IF request.message.kind = "number" THEN BadRequest("Payload invalido.")
    ELSE chat_response(Strip(request.message.text), request.history, l, st)

\* vehicle_chat_view for a POST (lines 463-537).  The body is "invalid" (it
\* does not decode or parse), "array" (JSON that is no object) or "object".
vehicle_chat_view(request, l, st) ==
    IF request.body # "object" THEN BadRequest("Payload invalido.")
    ELSE IF request.message.kind = "number" THEN BadRequest("Payload invalido.")
    ELSE IF request.message.kind \in {"missing", "null"} THEN BadRequest("Mensagem vazia.")
    ELSE IF Strip(request.message.text) = <<>> THEN BadRequest("Mensagem vazia.")
    ELSE chat_response(Strip(request.message.text), request.history, l, st)

---------------------------------------------------------------------------
\* The chat service and its store (specification Spec)

MaxStore == 3

NoResp == [kind |-> "none", status |-> 0]

NoReq == [method |-> "none"]

\* no history, two turns, and a list whose element is no object
Histories == {<<>>,
              <<Turn("object", Some("user"), Some(<<"o", "i">>)),
                Turn("object", Some("bot"), Some(<<"o", "l", "a">>))>>,
              <<Turn("string", None, None)>>}

Message(kind, text) == [kind |-> kind, text |-> text]

PostRequests ==
    {[method |-> "POST", body |-> b, message |-> Message("missing", <<>>), history |-> <<>>] :
        b \in {"invalid", "array"}}
    \cup {[method |-> "POST", body |-> "object", message |-> m, history |-> <<>>] :
            m \in {Message("missing", <<>>), Message("null", <<>>),
                   Message("number", <<>>), Message("text", <<>>),
                   Message("text", <<" ", "\t", " ">>)}}
    \cup {[method |-> "POST", body |-> "object", message |-> Message("text", Messages[i]),
           history |-> <<>>] : i \in 1..Len(Messages)}
    \cup {[method |-> "POST", body |-> "object", message |-> Message("text", Messages[1]),
           history |-> h] : h \in Histories}

\* the variables of SpecParse, unused
ParseIdle == /\ msg = <<>>
             /\ filters = None
             /\ applied = None
             /\ pstate = "off"

Init == /\ ServiceIdle
        /\ ParseIdle
        /\ SideIdle

\* the view returned out for the request r with the collaborator behaving as l
Answer(r, l, out) ==
    /\ req' = r
    /\ llm' = l
    /\ rfilters' = out.filters
    /\ resp' = out.resp
    /\ effects' = [queries |-> out.queries, calls |-> out.calls, sent |-> out.sent]

\* Vehicle.objects.create(...): vin is unique, so a VIN that is already in the
\* table raises IntegrityError and the table is unchanged
CreateVehicle ==
    /\ resp = NoResp
    /\ Cardinality(store) < MaxStore
    /\ \E k \in 1..Len(Kinds), vin \in {r.vin : r \in store} \cup {clock} :
          IF \E r \in store : r.vin = vin
          THEN UNCHANGED <<store, clock>>
          ELSE /\ store' = store \cup {MkVehicle(k, clock, vin, clock)}
               /\ clock' = clock + 1
    /\ UNCHANGED <<req, llm, rfilters, resp, effects, parseVars, sideVars>>

\* GET: the chat page is rendered
HandleGet ==
    /\ resp = NoResp
    /\ req' = [method |-> "GET"]
    /\ resp' = [kind |-> "page", status |-> 200, template |-> "vehicles/chat.html"]
    /\ effects' = [queries |-> <<>>, calls |-> <<>>, sent |-> <<>>]
    /\ llm' = "none"
    /\ rfilters' = None
    /\ UNCHANGED <<store, clock, parseVars, sideVars>>

\* POST: the whole of vehicle_chat_view, for any payload and any behaviour
\* of the collaborator
HandlePost ==
    /\ resp = NoResp
    /\ \E r \in PostRequests, l \in LlmBehaviours :
          Answer(r, l, vehicle_chat_view(r, l, store))
    /\ UNCHANGED <<store, clock, parseVars, sideVars>>

\* the response is handed to the client; the next operation starts after it
Deliver ==
    /\ resp # NoResp
    /\ resp' = NoResp
    /\ req' = NoReq
    /\ llm' = "none"
    /\ rfilters' = None
    /\ effects' = [queries |-> <<>>, calls |-> <<>>, sent |-> <<>>]
    /\ UNCHANGED <<store, clock, parseVars, sideVars>>

Next == CreateVehicle \/ HandleGet \/ HandlePost \/ Deliver

Spec == Init /\ [][Next]_vars

---------------------------------------------------------------------------
\* The query translator on fixed catalogues (specification SpecQuery): a
\* service without collaborator, as in tests/test_views.py, answers one
\* request, and the filters of the request are applied in any order.

\* the catalogue with the given kinds, created in the order of Kinds
Catalogue(ks) ==
    {MkVehicle(k, k, k, Cardinality({j \in ks : j < k}) + 1) : k \in ks}

QueryStores == {Catalogue(ks) : ks \in SUBSET (1..Len(Kinds))}

RECURSIVE Perms(_)
Perms(S) == IF S = {} THEN {<<>>}
            ELSE UNION {{<<x>> \o p : p \in Perms(S \ {x})} : x \in S}

\* every order of the seven filter steps
Orders == Perms(1..7)

QueryInit == /\ store \in QueryStores
             /\ clock = Cardinality(store) + 1
             /\ req = NoReq
             /\ llm = "none"
             /\ rfilters = None
             /\ resp = NoResp
             /\ effects = [queries |-> <<>>, calls |-> <<>>, sent |-> <<>>]
             /\ ParseIdle
             /\ SideIdle

AnswerQuery ==
    /\ resp = NoResp
    /\ \E r \in {q \in PostRequests : q.body = "object" /\ q.message.kind = "text"
                                        /\ q.message.text # <<>> /\ q.history = <<>>} :
          Answer(r, "no_api_key", vehicle_chat_view(r, "no_api_key", store))
    /\ UNCHANGED <<store, clock, parseVars, sideVars>>

QueryInOrder ==
    /\ IsSet(rfilters)
    /\ qresult = None
    /\ \E order \in Orders :
          qresult' = Some(ApplyFilters(order, Val(rfilters), store))
    /\ UNCHANGED <<parseVars, serviceVars, rs, summary, callVars, seedVars, view>>

QueryNext == AnswerQuery \/ QueryInOrder

SpecQuery == QueryInit /\ [][QueryNext]_vars

---------------------------------------------------------------------------
\* summarize_queryset on large result sets (specification SpecSum)

MaxRows == 302

\* the number of distinct price bands of each catalogue pattern
BandsOfPattern == <<13, 3, 1>>

\* row i, newest first, of a result set of n rows following pattern p: the
\* kinds in turn, the prices spread over the bands of the pattern, and in the
\* third pattern every fifth body type left empty
SumRow(n, p, i) ==
    [MkVehicle((i % Len(Kinds)) + 1, i, i, n - i + 1) EXCEPT
        !.price = ((i % BandsOfPattern[p]) * 2000000) + 1500000 + (i % 2) * 99,
        !.body_type = IF p = 3 /\ i % 5 = 0 THEN <<>> ELSE @]

SumInputs == {[i \in 1..n |-> SumRow(n, p, i)] :
                n \in 0..MaxRows, p \in 1..Len(BandsOfPattern)}

SumInit == /\ rs \in SumInputs
           /\ summary = None
           /\ qresult = None
           /\ CallIdle
           /\ SeedIdle
           /\ ViewIdle
           /\ ServiceIdle
           /\ ParseIdle

Summarize == /\ summary = None
             /\ summary' = Some(summarize_queryset(rs))
             /\ UNCHANGED <<parseVars, serviceVars, qresult, rs, callVars, seedVars, view>>

SumNext == Summarize

SpecSum == SumInit /\ [][SumNext]_vars

---------------------------------------------------------------------------
\* build_suggestions called on its own (specification SpecSuggest)

MaxTotal == 42

\* filter sets: each of body type, fuel and doors set or unset, and the
\* filters of the request messages
SuggestFilters ==
    {[body_type |-> b, transmission |-> None, fuel |-> fu, price_max |-> None,
      year_min |-> None, year_range |-> None, doors |-> d] :
        b \in {None, Some(<<"S", "U", "V">>)}, fu \in {None, Some(<<"f", "l", "e", "x">>)},
        d \in {None, Some(2), Some(4)}}
    \cup {ParseMemo[i] : i \in 1..Len(Messages)}

SuggestCalls == {[fn |-> "build_suggestions", filters |-> f, qs_total |-> n] :
                   f \in SuggestFilters, n \in 0..MaxTotal}

SuggestInit == /\ call \in SuggestCalls
               /\ ret = None
               /\ SumIdle
               /\ SeedIdle
               /\ ViewIdle
               /\ ServiceIdle
               /\ ParseIdle

Suggest == /\ call.fn = "build_suggestions"
           /\ ret = None
           /\ ret' = Some(build_suggestions(call.filters, call.qs_total))
           /\ UNCHANGED <<parseVars, serviceVars, sumVars, seedVars, view, call>>

SuggestNext == Suggest

SpecSuggest == SuggestInit /\ [][SuggestNext]_vars

---------------------------------------------------------------------------
\* build_llm_messages called on its own (specification SpecPrompt)

MaxTurns == 8

\* the turn at position i of a history: of the user, of another role, or an
\* object without keys; its content tells its position
TurnOfKind(k, i) ==
    CASE k = 1 -> Turn("object", Some("user"), Some(IntToDigits(i)))
      [] k = 2 -> Turn("object", Some("bot"), Some(IntToDigits(i)))
      [] k = 3 -> Turn("object", None, None)

\* the histories of up to MaxTurns turns, and those of MaxTurns turns with a
\* string in the place of one turn
PromptHistories ==
    {[i \in 1..Len(ks) |-> TurnOfKind(ks[i], i)] :
        ks \in UNION {[1..n -> 1..3] : n \in 0..MaxTurns}}
    \cup {[i \in 1..MaxTurns |-> IF i = p THEN Turn("string", None, None)
                                            ELSE TurnOfKind(1, i)] : p \in 1..MaxTurns}

PromptCalls ==
    {[fn |-> "build_llm_messages", user_msg |-> UserMessages[1], history |-> h,
      context_text |-> make_catalog_context(<<>>, CONTEXT_MAX_LINES)] :
        h \in PromptHistories}

PromptInit == /\ call \in PromptCalls
              /\ ret = None
              /\ SumIdle
              /\ SeedIdle
              /\ ViewIdle
              /\ ServiceIdle
              /\ ParseIdle

BuildPrompt ==
    /\ call.fn = "build_llm_messages"
    /\ ret = None
    /\ ret' = Some(build_llm_messages(call.user_msg, call.history, call.context_text))
    /\ UNCHANGED <<parseVars, serviceVars, sumVars, seedVars, view, call>>

PromptNext == BuildPrompt

SpecPrompt == PromptInit /\ [][PromptNext]_vars

---------------------------------------------------------------------------
\* fallback_reply and make_catalog_context called on their own
\* (specification SpecText)

MaxResult == 7

MaxLines == 6

\* row i of a result set of n rows: the kinds in turn from offset o, each row
\* with its own mileage; the queryset hands them newest first or oldest first
ResultRow(n, o, newest_first, i) ==
    [MkVehicle(((i + o) % Len(Kinds)) + 1, i, i, IF newest_first THEN n - i + 1 ELSE i)
        EXCEPT !.mileage_km = 1000 * i]

ResultSets == {[i \in 1..n |-> ResultRow(n, o, nf, i)] :
                 n \in 0..MaxResult, o \in 0..1, nf \in BOOLEAN}

TextCalls ==
    {[fn |-> "fallback_reply", user_msg |-> UserMessages[1], rows |-> rows, limit |-> l] :
        rows \in ResultSets, l \in (0..MaxLines)}
    \cup {[fn |-> "make_catalog_context", rows |-> rows, max_lines |-> l] :
            rows \in ResultSets, l \in (0..MaxLines) \cup {CONTEXT_MAX_LINES}}

TextInit == /\ call \in TextCalls
            /\ ret = None
            /\ SumIdle
            /\ SeedIdle
            /\ ViewIdle
            /\ ServiceIdle
            /\ ParseIdle

Fallback ==
    /\ call.fn = "fallback_reply"
    /\ ret = None
    /\ ret' = Some(fallback_reply(call.user_msg, call.rows, call.limit))
    /\ UNCHANGED <<parseVars, serviceVars, sumVars, seedVars, view, call>>

Context ==
    /\ call.fn = "make_catalog_context"
    /\ ret = None
    /\ ret' = Some(make_catalog_context(call.rows, call.max_lines))
    /\ UNCHANGED <<parseVars, serviceVars, sumVars, seedVars, view, call>>

TextNext == Fallback \/ Context

SpecText == TextInit /\ [][TextNext]_vars

---------------------------------------------------------------------------
\* _price_band called on its own, for two prices (specification SpecBand)

\* the bands of the prices go up to this one (band 50 starts at 1,000,000)
MaxBucket == 52

\* the first and the last price of every band, in hundredths
BandPrices == {b * STEP * 100 + d : b \in 0..MaxBucket, d \in {0, STEP * 100 - 1}}

BandCalls == {[fn |-> "_price_band", price |-> p, other |-> q] :
                p \in BandPrices, q \in BandPrices}

BandInit == /\ call \in BandCalls
            /\ ret = None
            /\ SumIdle
            /\ SeedIdle
            /\ ViewIdle
            /\ ServiceIdle
            /\ ParseIdle

Band ==
    /\ call.fn = "_price_band"
    /\ ret = None
    /\ ret' = Some(<<_price_band(call.price), _price_band(call.other)>>)
    /\ UNCHANGED <<parseVars, serviceVars, sumVars, seedVars, view, call>>

BandNext == Band

SpecBand == BandInit /\ [][BandNext]_vars

---------------------------------------------------------------------------
\* management/commands: seed_vehicles and seed_vehicles_ai, and other
\* clients that create records (specification SpecSeed)

MaxSeedClock == 3

MaxSeedN == 2

\* --batch, at its default
DEFAULT_BATCH == 10

MaxItems == 2

\* _VIN_CHARS
VIN_CHARS == LET cs == <<"A", "B", "C", "D", "E", "F", "G", "H", "J", "K", "L", "M", "N", "P", "R", "S", "T", "U", "V", "W", "X", "Y", "Z", "0", "1", "2", "3", "4", "5", "6", "7", "8", "9">>
             IN  {cs[i] : i \in 1..Len(cs)}

VIN_LEN == 17

TRIES == 4

UpperOf == [c \in {LOWER[i] : i \in 1..26} |-> UPPER[CHOOSE i \in 1..26 : LOWER[i] = c]]

\* str.upper()
UpperSeq(s) == [i \in 1..Len(s) |-> IF s[i] \in DOMAIN UpperOf THEN UpperOf[s[i]] ELSE s[i]]

\* what unique_vin() and fallback_vin() return: any 17 characters of
\* _VIN_CHARS, of which two are kept
FallbackVins == {<<"B", "7", "B", "7", "B", "7", "B", "7", "B", "7", "B", "7", "B", "7", "B", "7", "B">>, <<"9", "B", "W", "Z", "Z", "Z", "3", "7", "7", "V", "T", "0", "0", "4", "2", "5", "1">>}

\* the VINs other clients create records with (tests/test_models.py)
ClientVins == {<<"9", "B", "W", "Z", "Z", "Z", "3", "7", "7", "V", "T", "0", "0", "4", "2", "5", "1">>, <<"9", "B", "W", "Z", "Z", "Z", "3", "7", "7", "V", "T", "0", "0", "4", "2", "5", "3">>}

\* the VINs of a table
VinsOf(st) == {r.vin : r \in st}

\* (mutant: a vin column without unique=True)
objects_create_not_unique(st, row) == [res |-> "ok", table |-> st \cup {row}]

\* Vehicle.objects.create(...) on the table st: vin is unique
objects_create(st, row) ==
    IF row.vin \in VinsOf(st)
    THEN [res |-> "IntegrityError", table |-> st]
    ELSE [res |-> "ok", table |-> st \cup {row}]

\* lines 150-153 of seed_vehicles_ai.py: the VIN of an item; raw is
\* item.get("vin"), d1 and d2 are what the two calls of fallback_vin() return
clean_vin(raw, d1, d2) ==
    LET base == IF raw = None \/ Val(raw) = <<>> THEN d1 ELSE Val(raw)
        kept == Take(SelectSeq(UpperSeq(base), LAMBDA c : c \in VIN_CHARS), VIN_LEN)
    IN  IF Len(kept) < VIN_LEN THEN kept \o Take(d2, VIN_LEN - Len(kept)) ELSE kept

\* an item of an answer: an object with or without "vin", or no object
Item(type, vin) == [type |-> type, vin |-> vin]

ItemKinds == {Item("object", None),
              Item("object", Some(<<"9", "b", "w", "z", "z", "z", "3", "7", "7", "v", "t", "0", "0", "4", "2", "5", "1">>)),
              Item("object", Some(<<"a", "b", "-", "c">>)),
              Item("string", None)}

\* what the generator answers: a text without JSON, or a list of items
Answers == {[json |-> FALSE, items |-> <<>>]}
           \cup {[json |-> TRUE, items |-> it] :
                   it \in UNION {[1..n -> ItemKinds] : n \in 0..MaxItems}}

\* a command in progress
Seeding(cmd, pc, total, batch) ==
    [cmd |-> cmd, pc |-> pc, total |-> total, batch |-> batch, created |-> 0,
     lote |-> {}, to_create |-> 0, items |-> <<>>, rows |-> {}, tries |-> 0]

\* create() is called with the row by the client or command `by`
DoCreate(by, row, out) ==
    /\ store' = out.table
    /\ clock' = IF out.res = "ok" THEN clock + 1 ELSE clock
    /\ lastcreate' = [by |-> by, vin |-> row.vin, existed |-> row.vin \in VinsOf(store),
                      res |-> out.res, changed |-> out.table # store]

SeedInit == /\ store = {}
            /\ clock = 1
            /\ req = NoReq
            /\ llm = "none"
            /\ rfilters = None
            /\ resp = NoResp
            /\ effects = [queries |-> <<>>, calls |-> <<>>, sent |-> <<>>]
            /\ ParseIdle
            /\ SideIdle

\* any client: Vehicle.objects.create(..., vin=vin)
CreateByClient ==
    /\ clock <= MaxSeedClock
    /\ \E vin \in ClientVins :
          DoCreate("client", MkVehicle(1, clock, vin, clock),
                   objects_create(store, MkVehicle(1, clock, vin, clock)))
    /\ UNCHANGED <<seed, req, llm, rfilters, resp, effects, parseVars, sumVars, callVars, view>>

\* seed_vehicles --n N starts (lines 40-43)
SeedVehiclesStart ==
    /\ seed = NoSeed
    /\ \E n \in 0..MaxSeedN :
          /\ clock + n <= MaxSeedClock + 1
          /\ seed' = Seeding("seed_vehicles", IF n = 0 THEN "done" ELSE "item", n, 0)
    /\ UNCHANGED <<store, clock, lastcreate, req, llm, rfilters, resp, effects,
                   parseVars, sumVars, callVars, view>>

\* seed_vehicles, one round of the loop of lines 58-61 and, when the VIN
\* drawn is free, the create of lines 62-78
SeedVehiclesItem ==
    /\ seed.cmd = "seed_vehicles"
    /\ seed.pc = "item"
    /\ \E vin \in FallbackVins :
          IF vin \in seed.lote \/ vin \in VinsOf(store)
          THEN UNCHANGED <<store, clock, lastcreate, seed>>
          ELSE LET row == MkVehicle(3, clock, vin, clock)
                   out == objects_create(store, row)
               IN  /\ DoCreate("seed_vehicles", row, out)
                   /\ seed' = IF out.res = "ok"
                              THEN [seed EXCEPT !.lote = @ \cup {vin},
                                                !.created = @ + 1,
                                                !.rows = @ \cup {row},
                                                !.pc = IF seed.created + 1 = seed.total
                                                       THEN "done" ELSE "item"]
                              ELSE [seed EXCEPT !.pc = "failed"]
    /\ UNCHANGED <<req, llm, rfilters, resp, effects, parseVars, sumVars, callVars, view>>

\* seed_vehicles_ai --n N --batch B [--wipe] starts (lines 95-113)
SeedAiStart ==
    /\ seed = NoSeed
    /\ \E avail \in {"no_package", "no_api_key", "ok"}, n \in 0..MaxSeedN,
          b \in {1, DEFAULT_BATCH}, wipe \in BOOLEAN :
          /\ clock + n + MaxItems <= MaxSeedClock + 2
          /\ IF avail # "ok"
             THEN /\ seed' = Seeding("seed_vehicles_ai", "refused", n, b)
                  /\ UNCHANGED store
             ELSE /\ seed' = Seeding("seed_vehicles_ai", "loop", n, b)
                  /\ store' = IF wipe THEN {} ELSE store
    /\ UNCHANGED <<clock, lastcreate, req, llm, rfilters, resp, effects,
                   parseVars, sumVars, callVars, view>>

\* while created < total, and the number of vehicles the prompt asks for
\* (lines 115-117)
SeedAiLoop ==
    /\ seed.cmd = "seed_vehicles_ai"
    /\ seed.pc = "loop"
    /\ seed' = IF seed.created < seed.total
               THEN [seed EXCEPT !.pc = "call", !.tries = 0,
                                 !.to_create = Min({seed.batch, seed.total - seed.created})]
               ELSE [seed EXCEPT !.pc = "done"]
    /\ UNCHANGED <<store, clock, lastcreate, req, llm, rfilters, resp, effects,
                   parseVars, sumVars, callVars, view>>

\* an attempt of retry_backoff(call_api, tries=4) raises (lines 28-35): the
\* last one raises out of the command, the others are followed by the next
SeedAiAttemptRaises ==
    /\ seed.cmd = "seed_vehicles_ai"
    /\ seed.pc = "call"
    /\ seed' = IF seed.tries = TRIES - 1
               THEN [seed EXCEPT !.pc = "failed"]
               ELSE [seed EXCEPT !.tries = @ + 1]
    /\ UNCHANGED <<store, clock, lastcreate, req, llm, rfilters, resp, effects,
                   parseVars, sumVars, callVars, view>>

\* an attempt returns, and the answer is parsed (lines 129-146); the answer
\* is the generator's, whatever number of vehicles the prompt asked for
SeedAiAnswer ==
    /\ seed.cmd = "seed_vehicles_ai"
    /\ seed.pc = "call"
    /\ \E a \in Answers :
          seed' = IF a.json
                  THEN [seed EXCEPT !.pc = "items", !.items = a.items, !.rows = {}]
                  ELSE [seed EXCEPT !.pc = "failed"]
    /\ UNCHANGED <<store, clock, lastcreate, req, llm, rfilters, resp, effects,
                   parseVars, sumVars, callVars, view>>

\* one attempt of retry_backoff(call_api, tries=4) and, when it succeeds,
\* the parsing of the answer (lines 129-146)
SeedAiCall == SeedAiAttemptRaises \/ SeedAiAnswer

\* one item of the answer (lines 149-183), inside transaction.atomic(): an
\* item that is no object raises and the batch is rolled back
SeedAiItem ==
    /\ seed.cmd = "seed_vehicles_ai"
    /\ seed.pc = "items"
    /\ seed.items # <<>>
    /\ IF Head(seed.items).type # "object"
       THEN /\ store' = store \ seed.rows
            /\ seed' = [seed EXCEPT !.pc = "failed"]
            /\ UNCHANGED <<clock, lastcreate>>
       ELSE \E d1 \in FallbackVins, d2 \in FallbackVins, tmp \in FallbackVins :
               LET vin0 == clean_vin(Head(seed.items).vin, d1, d2)
                   vin  == IF vin0 \in VinsOf(store) THEN tmp ELSE vin0
                   row  == MkVehicle(4, clock, vin, clock)
                   out  == objects_create(store, row)
               IN  IF vin0 \in VinsOf(store) /\ tmp \in VinsOf(store)
                   THEN UNCHANGED <<store, clock, lastcreate, seed>>
                   ELSE IF out.res = "ok"
                   THEN /\ DoCreate("seed_vehicles_ai", row, out)
                        /\ seed' = [seed EXCEPT !.created = @ + 1,
                                                !.rows = @ \cup {row},
                                                !.items = Tail(@)]
                   ELSE /\ store' = store \ seed.rows
                        /\ clock' = clock
                        /\ lastcreate' = [by |-> "seed_vehicles_ai", vin |-> vin,
                                          existed |-> TRUE, res |-> out.res,
                                          changed |-> FALSE]
                        /\ seed' = [seed EXCEPT !.pc = "failed"]
    /\ UNCHANGED <<req, llm, rfilters, resp, effects, parseVars, sumVars, callVars, view>>

\* the batch is committed (lines 185-186)
SeedAiCommit ==
    /\ seed.cmd = "seed_vehicles_ai"
    /\ seed.pc = "items"
    /\ seed.items = <<>>
    /\ seed' = [seed EXCEPT !.pc = "loop", !.rows = {}]
    /\ UNCHANGED <<store, clock, lastcreate, req, llm, rfilters, resp, effects,
                   parseVars, sumVars, callVars, view>>

\* the command has ended, normally or with an exception
SeedEnd ==
    /\ seed # NoSeed
    /\ seed.pc \in {"done", "failed", "refused"}
    /\ seed' = NoSeed
    /\ UNCHANGED <<store, clock, lastcreate, req, llm, rfilters, resp, effects,
                   parseVars, sumVars, callVars, view>>

SeedNext == \/ CreateByClient
            \/ SeedVehiclesStart
            \/ SeedVehiclesItem
            \/ SeedAiStart
            \/ SeedAiLoop
            \/ SeedAiCall
            \/ SeedAiItem
            \/ SeedAiCommit
            \/ SeedEnd

SpecSeed == SeedInit /\ [][SeedNext]_vars

---------------------------------------------------------------------------
\* seed_vehicles_ai run once, on an empty table, with an API whose calls
\* answer within their 4 attempts (specification SpecSeedAi).  The command is
\* a sequential program: while it has a step to take, it takes one.

\* an attempt raises while another attempt is left
SeedAiRetry ==
    /\ seed.cmd = "seed_vehicles_ai"
    /\ seed.tries < TRIES - 1
    /\ SeedAiAttemptRaises

\* the steps of the command after its start
SeedAiRun == SeedAiLoop \/ SeedAiRetry \/ SeedAiAnswer \/ SeedAiItem \/ SeedAiCommit

SeedAiNext == SeedAiStart \/ SeedAiRun

SpecSeedAi == SeedInit /\ [][SeedAiNext]_vars /\ WF_vars(SeedAiRun)

---------------------------------------------------------------------------
\* The query of the chat view on a table filled by a seeding command
\* (specification SpecSeeded)

\* seed_vehicles.py lines 20-22; SYSTEM_PROMPT of seed_vehicles_ai.py asks
\* the generator for the same values (lines 74-76)
FUEL == <<<<"g", "a", "s", "o", "l", "i", "n", "a">>, <<"a", "l", "c", "o", "o", "l">>, <<"d", "i", "e", "s", "e", "l">>, <<"f", "l", "e", "x">>, <<"e", "l", "e", "t", "r", "i", "c", "o">>, <<"h", "i", "b", "r", "i", "d", "o">>>>

TRANS == <<<<"m", "a", "n", "u", "a", "l">>, <<"a", "u", "t", "o", "m", "a", "t", "i", "c", "a">>, <<"c", "v", "t">>>>

BODY == <<<<"h", "a", "t", "c", "h">>, <<"s", "e", "d", "a", "n">>, <<"s", "u", "v">>, <<"p", "i", "c", "k", "u", "p">>, <<"c", "o", "u", "p", "e">>, <<"w", "a", "g", "o", "n">>>>

\* the tables hold up to this many seeded rows
MaxSeeded == 2

\* the row seed_vehicles creates (lines 64-77) after random.choice drew
\* entry b of BODY, entry t of TRANS and entry u of FUEL; the VIN, drawn
\* until it is a new one, is written as the number of the row
SeededRow(b, t, u, id) ==
    [MkVehicle(3, id, <<id>>, id) EXCEPT !.body_type = BODY[b],
                                         !.transmission = TRANS[t],
                                         !.fuel_type = FUEL[u]]

\* a table of n seeded rows: the first as drawn, the others with the
\* entries that follow in the lists
SeededStore(b, t, u, n) ==
    {SeededRow(((b + j - 2) % Len(BODY)) + 1, ((t + j - 2) % Len(TRANS)) + 1,
               ((u + j - 2) % Len(FUEL)) + 1, j) : j \in 1..n}

\* the keys of a synonym table
KeysOf(table) == {table[i][1] : i \in 1..Len(table)}

\* what the user writes: a key of one of the three tables
SeededTexts == KeysOf(BODY_TYPES) \cup KeysOf(TRANSMISSIONS) \cup KeysOf(FUELS)

SeededCalls == {[fn |-> "seeded_query", text |-> x, body |-> b, trans |-> t,
                 fuel |-> u, n |-> n] :
                  x \in SeededTexts, b \in 1..Len(BODY), t \in 1..Len(TRANS),
                  u \in 1..Len(FUEL), n \in 1..MaxSeeded}

\* lines 476-484 of views.py on the table st: the filters, the rows they
\* select, the relaxation and the count
seeded_query(f, matched, st) ==
    [f |-> f, table |-> st, matched |-> matched,
     relaxed |-> Cardinality(matched) = 0,
     rows |-> effective_qs(matched, st),
     total_matches |-> total_matches(matched, st)]

SeededInit == /\ call \in SeededCalls
              /\ ret = None
              /\ SumIdle
              /\ SeedIdle
              /\ ViewIdle
              /\ ServiceIdle
              /\ ParseIdle

SeededQuery ==
    /\ call.fn = "seeded_query"
    /\ ret = None
    /\ \E st \in {SeededStore(call.body, call.trans, call.fuel, call.n)} :
       \E f \in {parse_filters(Strip(call.text))} :
          ret' = Some(seeded_query(f, query_from_filters(f, st), st))
    /\ UNCHANGED <<parseVars, serviceVars, sumVars, seedVars, view, call>>

SeededNext == SeededQuery

SpecSeeded == SeededInit /\ [][SeededNext]_vars

---------------------------------------------------------------------------
\* views.py: vehicle_chat_view, query by query, beside other clients that
\* write to the table (specification SpecChat).  The view opens no
\* transaction: each query reads the table as it is when the query runs.

\* the writes of other clients while requests are answered
MaxWrites == 1

\* the requests: messages that pass the checks of lines 463-473, without a
\* history or with a history whose element is no object
ChatMessages == {UserMessages[3], UserMessages[4], UserMessages[5]}

ChatHistories == {<<>>, <<Turn("string", None, None)>>}

ChatBehaviours == {"no_api_key", "init_raises", "text", "no_content", "RateLimitError"}

ChatStores == {Catalogue(ks) : ks \in SUBSET {1, 2}}

\* the locals of the view after line 476
StartView(user_msg, history) ==
    [pc |-> "count", user_msg |-> user_msg, history |-> history,
     f |-> parse_filters_of(user_msg), relaxed |-> FALSE, total_matches |-> 0,
     items |-> <<>>,
     summary |-> [total |-> 0, by_body |-> <<>>, by_fuel |-> <<>>,
                  year_span |-> [min |-> 0, max |-> 0], top_price_bands |-> <<>>],
     context_text |-> <<>>, sent |-> <<>>, fb_total |-> 0,
     reply |-> <<>>, outcome |-> "none", calls |-> <<>>]

\* the rows of qs when a query on it runs: a queryset is lazy and is
\* evaluated anew by every query
qs_now(v, st) ==
    IF v.relaxed THEN OrderByCreatedDesc(st)
    ELSE OrderByCreatedDesc(CHOOSE matched \in {query_from_filters(v.f, st)} : TRUE)

\* line 479, and line 483 when the count is 0; rows is what the query of the
\* step returns
count_matches(v, rows) ==
    [v EXCEPT !.total_matches = Len(rows),
              !.relaxed = (Len(rows) = 0),
              !.pc = IF Len(rows) = 0 THEN "recount" ELSE "items"]

\* line 484
recount(v, rows) ==
    [v EXCEPT !.total_matches = Len(rows), !.pc = "items"]

\* lines 487-488
list_items(v, rows) ==
    [v EXCEPT !.items = [i \in 1..Len(Take(rows, ITEMS_LIMIT)) |->
                            vehicle_to_dict(rows[i])],
              !.pc = "summary_count"]

\* line 281
summary_count(v, rows) ==
    [v EXCEPT !.summary.total = Len(rows),
              !.pc = "aggregate"]

\* lines 295-297
summary_aggregate(v, rows) ==
    [v EXCEPT !.summary.year_span = year_span(rows),
              !.pc = "prices"]

\* lines 300-306
summary_prices(v, rows) ==
    [v EXCEPT !.summary.top_price_bands = top_price_bands(rows),
              !.pc = "by_body"]

\* line 310: by_body is evaluated when the result is built
summary_by_body(v, rows) ==
    [v EXCEPT !.summary.by_body = by_body(rows),
              !.pc = "by_fuel"]

\* line 311
summary_by_fuel(v, rows) ==
    [v EXCEPT !.summary.by_fuel = by_fuel(rows),
              !.pc = "examples"]

\* lines 349-366: the query of the examples, and the text
context_query(v, rows) ==
    [v EXCEPT !.context_text =
                  context_lines(v.summary,
                                context_examples(order_by_created(rows),
                                                 CONTEXT_MAX_LINES)),
              !.pc = "client"]

\* lines 495-503 and the else branch of line 517
make_client(v, l) ==
    [v EXCEPT !.calls = IF l \in {"no_package", "no_api_key"} THEN <<>> ELSE <<"OpenAI()">>,
              !.pc = IF l \in NoClient THEN "fb_count" ELSE "build"]

\* line 507, and line 515 when it raises
build_messages(v, built) ==
    IF built.raised # ""
    THEN [v EXCEPT !.pc = "fb_count"]
    ELSE [v EXCEPT !.sent = built.msgs, !.pc = "call"]

\* (mutant: a call that raised is made once more)
call_collaborator_retrying(v, l) ==
    IF l = "text"
    THEN [v EXCEPT !.calls = Append(@, "chat.completions.create"),
                   !.reply = <<[tag |-> "llm", text |-> "completion"]>>,
                   !.outcome = "SUCCESS", !.pc = "respond"]
    ELSE IF l = "no_content"
    THEN [v EXCEPT !.calls = Append(@, "chat.completions.create"),
                   !.reply = <<>>, !.outcome = "SUCCESS", !.pc = "respond"]
    ELSE [v EXCEPT !.calls = Append(@, "chat.completions.create"),
                   !.pc = IF Len(v.calls) < 2 THEN "call" ELSE "fb_count"]

\* lines 508-515: the one call; it returns a text, returns no content, or
\* raises
call_collaborator(v, l) ==
    IF l = "text"
    THEN [v EXCEPT !.calls = Append(@, "chat.completions.create"),
                   !.reply = <<[tag |-> "llm", text |-> "completion"]>>,
                   !.outcome = "SUCCESS", !.pc = "respond"]
    ELSE IF l = "no_content"
    THEN [v EXCEPT !.calls = Append(@, "chat.completions.create"),
                   !.reply = <<>>, !.outcome = "SUCCESS", !.pc = "respond"]
    ELSE [v EXCEPT !.calls = Append(@, "chat.completions.create"),
                   !.pc = "fb_count"]

\* fallback_reply, lines 434-441
fallback_count(v, rows) ==
    IF Len(rows) = 0
    THEN [v EXCEPT !.calls = Append(@, "fallback_reply"),
                   !.fb_total = 0,
                   !.reply = <<[tag |-> "no_options_found"]>>,
                   !.outcome = "FALLBACK", !.pc = "respond"]
    ELSE [v EXCEPT !.calls = Append(@, "fallback_reply"),
                   !.fb_total = Len(rows),
                   !.pc = "fb_recent"]

\* fallback_reply, lines 443-451
fallback_recent(v, rows) ==
    [v EXCEPT !.reply = <<[tag |-> "found", total |-> v.fb_total],
                          [tag |-> "some_suggestions"]>>
                        \o fallback_examples(order_by_created(rows), FALLBACK_LIMIT)
                        \o <<[tag |-> "offer_filters"]>>,
              !.outcome = "FALLBACK", !.pc = "respond"]

\* what the steps of a request leave alone
chatRest == <<store, clock, req, llm, rfilters, resp, effects,
              parseVars, sumVars, callVars, seedVars>>

ChatInit == /\ store \in ChatStores
            /\ clock = Len(Kinds) + 1
            /\ req = NoReq
            /\ llm = "none"
            /\ rfilters = None
            /\ resp = NoResp
            /\ effects = [queries |-> <<>>, calls |-> <<>>, sent |-> <<>>]
            /\ ParseIdle
            /\ SideIdle

\* another client creates a record
OtherCreate ==
    /\ clock < Len(Kinds) + 1 + MaxWrites
    /\ \E k \in {1, 2} : store' = store \cup {MkVehicle(k, clock, clock, clock)}
    /\ clock' = clock + 1
    /\ UNCHANGED <<req, llm, rfilters, resp, effects, parseVars, sideVars>>

\* another client deletes a record
OtherDelete ==
    /\ clock < Len(Kinds) + 1 + MaxWrites
    /\ \E r \in store : store' = store \ {r}
    /\ clock' = clock + 1
    /\ UNCHANGED <<req, llm, rfilters, resp, effects, parseVars, sideVars>>

\* a POST arrives and passes the checks; the collaborator will behave as l
Receive ==
    /\ view = NoView
    /\ resp = NoResp
    /\ \E m \in ChatMessages, h \in ChatHistories, l \in ChatBehaviours :
          /\ req' = [method |-> "POST", body |-> "object",
                     message |-> Message("text", m), history |-> h]
          /\ llm' = l
          /\ view' = StartView(m, h)
    /\ UNCHANGED <<store, clock, rfilters, resp, effects,
                   parseVars, sumVars, callVars, seedVars>>

Count ==
    /\ view.pc = "count"
    /\ \E rows \in {qs_now(view, store)} : view' = count_matches(view, rows)
    /\ UNCHANGED chatRest

Recount ==
    /\ view.pc = "recount"
    /\ \E rows \in {qs_now(view, store)} : view' = recount(view, rows)
    /\ UNCHANGED chatRest

ListItems ==
    /\ view.pc = "items"
    /\ \E rows \in {qs_now(view, store)} : view' = list_items(view, rows)
    /\ UNCHANGED chatRest

SummaryCount ==
    /\ view.pc = "summary_count"
    /\ \E rows \in {qs_now(view, store)} : view' = summary_count(view, rows)
    /\ UNCHANGED chatRest

SummaryAggregate ==
    /\ view.pc = "aggregate"
    /\ \E rows \in {qs_now(view, store)} : view' = summary_aggregate(view, rows)
    /\ UNCHANGED chatRest

SummaryPrices ==
    /\ view.pc = "prices"
    /\ \E rows \in {qs_now(view, store)} : view' = summary_prices(view, rows)
    /\ UNCHANGED chatRest

SummaryByBody ==
    /\ view.pc = "by_body"
    /\ \E rows \in {qs_now(view, store)} : view' = summary_by_body(view, rows)
    /\ UNCHANGED chatRest

SummaryByFuel ==
    /\ view.pc = "by_fuel"
    /\ \E rows \in {qs_now(view, store)} : view' = summary_by_fuel(view, rows)
    /\ UNCHANGED chatRest

ContextQuery ==
    /\ view.pc = "examples"
    /\ \E rows \in {qs_now(view, store)} : view' = context_query(view, rows)
    /\ UNCHANGED chatRest

MakeClient ==
    /\ view.pc = "client"
    /\ view' = make_client(view, llm)
    /\ UNCHANGED chatRest

BuildMessages ==
    /\ view.pc = "build"
    /\ \E built \in {build_llm_messages(view.user_msg, view.history,
                                         view.context_text)} :
          view' = build_messages(view, built)
    /\ UNCHANGED chatRest

CallCollaborator ==
    /\ view.pc = "call"
    /\ view' = call_collaborator(view, llm)
    /\ UNCHANGED chatRest

FallbackCount ==
    /\ view.pc = "fb_count"
    /\ \E rows \in {qs_now(view, store)} : view' = fallback_count(view, rows)
    /\ UNCHANGED chatRest

FallbackRecent ==
    /\ view.pc = "fb_recent"
    /\ \E rows \in {qs_now(view, store)} : view' = fallback_recent(view, rows)
    /\ UNCHANGED chatRest

\* lines 519-537: the suggestions and the response
Respond ==
    /\ view.pc = "respond"
    /\ \E out \in {view_response(view.f, view.total_matches, view.relaxed,
                                  view.items,
                                  [text |-> view.reply, calls |-> view.calls,
                                   sent |-> view.sent])} :
          Answer(req, llm, out)
    /\ view' = [view EXCEPT !.pc = "done"]
    /\ UNCHANGED <<store, clock, parseVars, sumVars, callVars, seedVars>>

\* the response is handed to the client
ChatDeliver ==
    /\ view # NoView
    /\ view.pc = "done"
    /\ resp' = NoResp
    /\ req' = NoReq
    /\ llm' = "none"
    /\ rfilters' = None
    /\ effects' = [queries |-> <<>>, calls |-> <<>>, sent |-> <<>>]
    /\ view' = NoView
    /\ UNCHANGED <<store, clock, parseVars, sumVars, callVars, seedVars>>

\* the steps of the view between the arrival of a request and its response
ViewStep == \/ Count
            \/ Recount
            \/ ListItems
            \/ SummaryCount
            \/ SummaryAggregate
            \/ SummaryPrices
            \/ SummaryByBody
            \/ SummaryByFuel
            \/ ContextQuery
            \/ MakeClient
            \/ BuildMessages
            \/ CallCollaborator
            \/ FallbackCount
            \/ FallbackRecent
            \/ Respond

ChatNext == OtherCreate \/ OtherDelete \/ Receive \/ ViewStep \/ ChatDeliver

SpecChat == ChatInit /\ [][ChatNext]_vars

\* The view on a table that nobody writes to (specification SpecChatFair):
\* the worker that runs the view runs it to its end, and the call to the
\* collaborator returns or raises.
FairNext == Receive \/ ViewStep \/ ChatDeliver

SpecChatFair == ChatInit /\ [][FairNext]_vars /\ WF_vars(ViewStep)

---------------------------------------------------------------------------
\* Claims about the filter extractor (specification SpecParse)

\* the text as the patterns see it
Norm == _normalize(msg)

\* C5: for every input, parse_filters returns a mapping whose key set is
\* exactly the seven dimensions, each value None or one value, and
\* filters_applied of the response carries the same seven keys.
C5_FixedKeySet ==
    /\ pstate \in {"parsed", "serialized"} =>
         /\ DOMAIN Val(filters) = FilterKeys
         /\ \A k \in FilterKeys : Len(Val(filters)[k]) <= 1
    /\ pstate = "serialized" =>
         /\ DOMAIN Val(applied) = FilterKeys
         /\ \A k \in FilterKeys : IsSet(Val(applied)[k]) = IsSet(Val(filters)[k])

\* a response whose filters hold a set and an unset dimension
C5_Witness ==
    /\ pstate = "serialized"
    /\ IsSet(Val(applied).price_max)
    /\ ~IsSet(Val(applied).doors)

\* the claim's reading of a numeric token: "." stripped, "," the decimal point
\* (at most two decimals), a value above 0; ClaimValue is in hundredths
ClaimTokenOk(tok) ==
    LET commas == {i \in 1..Len(tok) : tok[i] = ","}
    IN  /\ Cardinality(commas) <= 1
        /\ \E i \in 1..Len(tok) : tok[i] \in DigitCls /\ tok[i] # "0"
        /\ commas # {} => /\ Len(tok) - Min(commas) \in 1..2
                          /\ \E i \in 1..(Min(commas) - 1) : tok[i] \in DigitCls
                          /\ \A i \in (Min(commas) + 1)..Len(tok) : tok[i] \in DigitCls

ClaimValue(tok) ==
    LET commas == {i \in 1..Len(tok) : tok[i] = ","}
        whole  == IF commas = {} THEN tok ELSE SubSeq(tok, 1, Min(commas) - 1)
        frac   == IF commas = {} THEN <<>> ELSE SubSeq(tok, Min(commas) + 1, Len(tok))
    IN  100 * IntOf(SelectSeq(whole, LAMBDA c : c # "."))
          + (IF Len(frac) = 1 THEN 10 * IntOf(frac) ELSE IntOf(frac))

ClaimPrice(tok) == IF ClaimValue(tok) < 1000 * 100
                   THEN 1000 * ClaimValue(tok)
                   ELSE ClaimValue(tok)

\* C6: for every numeric token that follows a price trigger phrase, with value
\* v ("." stripped, "," the decimal point), price_max is v*1000 when v < 1000
\* and v when v >= 1000, whatever the token's digit count.
C6_PriceOfToken ==
    pstate = "parsed" =>
        LET m == PRICE_PT_RE(Norm)
        IN  (m # None /\ ClaimTokenOk(Val(m))) =>
                Val(filters).price_max = Some(ClaimPrice(Val(m)))

\* four digits at position i that read as a year in 1900..2099
IsYear(s, i) == /\ \A k \in 0..3 : CharAt(s, i + k) \in DigitCls
                /\ IntOf(SubSeq(s, i, i + 3)) \in 1900..2099

\* positions a..b hold one dash and otherwise blanks
DashBetween(s, a, b) ==
    \E j \in a..b : s[j] = "-" /\ \A x \in (a..b) \ {j} : s[x] \in SpaceCls

\* every <<position, a, b>> such that "a-b" is written at that position
WrittenRanges(s) ==
    {<<p[1], IntOf(SubSeq(s, p[1], p[1] + 3)), IntOf(SubSeq(s, p[2], p[2] + 3))>> :
        p \in {q \in (1..Len(s)) \X (1..Len(s)) :
                 /\ q[2] > q[1] + 4
                 /\ IsYear(s, q[1])
                 /\ IsYear(s, q[2])
                 /\ DashBetween(s, q[1] + 4, q[2] - 1)}}

LeftmostRange(s) == CHOOSE w \in WrittenRanges(s) : \A v \in WrittenRanges(s) : w[1] <= v[1]

\* C7 as stated: every pair of years written as "a-b" in the text sets
\* year_range to (min(a,b), max(a,b)).
C7_EveryWrittenPair ==
    pstate = "parsed" =>
        \A w \in WrittenRanges(Norm) :
            Val(filters).year_range = Some(<<Min({w[2], w[3]}), Max({w[2], w[3]})>>)

\* C7 amended: the leftmost pair of years written as "a-b" sets year_range to
\* (min(a,b), max(a,b)), with or without a year-minimum trigger; whenever
\* year_range is set its first component is <= its second.
C7_LeftmostPairOrdered ==
    pstate = "parsed" =>
        /\ WrittenRanges(Norm) # {} =>
             LET w == LeftmostRange(Norm)
             IN  Val(filters).year_range = Some(<<Min({w[2], w[3]}), Max({w[2], w[3]})>>)
        /\ IsSet(Val(filters).year_range) =>
             Val(Val(filters).year_range)[1] <= Val(Val(filters).year_range)[2]

\* a range written high-low after a year-minimum trigger has been parsed
C7_Witness ==
    /\ pstate = "parsed"
    /\ WrittenRanges(Norm) # {}
    /\ LeftmostRange(Norm)[2] > LeftmostRange(Norm)[3]
    /\ IsSet(Val(filters).year_min)
    /\ IsSet(Val(filters).year_range)

\* the positions of a standalone digit 2, 4 or 5 followed, after blanks, by "portas"
DoorsWritten(s) ==
    {i \in 1..Len(s) :
        /\ s[i] \in {"2", "4", "5"}
        /\ CharAt(s, i - 1) \notin WordCls
        /\ \E k \in (i + 2)..Len(s) :
              /\ \A x \in (i + 1)..(k - 1) : s[x] \in SpaceCls
              /\ LitAt(s, k, <<"p", "o", "r", "t", "a", "s">>)}

\* C8 as stated: doors is d exactly when the text contains a standalone digit d
\* of 2, 4, 5 followed by "portas".
C8_ExactlyWhenWritten ==
    pstate = "parsed" =>
        \A d \in {2, 4, 5} :
            (Val(filters).doors = Some(d))
               <=> (\E i \in DoorsWritten(Norm) : DigitVal(Norm[i]) = d)

\* C8 amended: doors is the leftmost standalone digit of 2, 4, 5 that is
\* followed by "portas", and unset when there is none; so doors is None, 2, 4
\* or 5, and a digit inside a longer number never sets it.
C8_LeftmostDoors ==
    pstate = "parsed" =>
        /\ Val(filters).doors =
             (IF DoorsWritten(Norm) = {} THEN None
              ELSE Some(DigitVal(Norm[Min(DoorsWritten(Norm))])))
        /\ Val(filters).doors \in {None, Some(2), Some(4), Some(5)}

\* doors was set from a text that also holds a 4 inside a longer number
C8_Witness ==
    /\ pstate = "parsed"
    /\ IsSet(Val(filters).doors)
    /\ \E i \in 1..Len(Norm) : Norm[i] = "4" /\ CharAt(Norm, i - 1) \in DigitCls

\* the trigger phrases as the claim lists them
ClaimTriggers == << <<"a", "t", "e'">>, <<"a", "t", "e">>, <<"<", "=">>, <<"<">>, <<"p", "o", "r">>, <<"n", "o", " ", "m", "a'", "x", "i", "m", "o">> >>

\* the numeric token that follows position j of the text, after blanks and a
\* currency sign: a run of digits, "." and "," that holds a digit; <<>> for none
TokenAfter(s, j) ==
    LET j1 == RunEnd(s, j, SpaceCls)
        j2 == IF LitAtI(s, j1, <<"R", "$">>) THEN RunEnd(s, j1 + 2, SpaceCls) ELSE j1
        j3 == RunEnd(s, j2, NumCls)
    IN  IF \E k \in j2..(j3 - 1) : s[k] \in DigitCls THEN SubSeq(s, j2, j3 - 1) ELSE <<>>

\* the tokens that follow a trigger phrase in the text
TriggerTokens(s) ==
    {TokenAfter(s, q[2] + Len(ClaimTriggers[q[1]])) :
        q \in {r \in (1..Len(ClaimTriggers)) \X (1..Len(s)) :
                 LitAtI(s, r[2], ClaimTriggers[r[1]])}} \ {<<>>}

\* the numerals of the text that "mil" follows
MilNumerals(s) ==
    {SubSeq(s, i, RunEnd(s, i, DigitCls) - 1) :
        i \in {p \in 1..Len(s) :
                 /\ s[p] \in DigitCls
                 /\ CharAt(s, p - 1) \notin DigitCls
                 /\ LitAtI(s, RunEnd(s, RunEnd(s, p, DigitCls), SpaceCls), <<"m", "i", "l">>)}}

\* C17: when a trigger phrase with a numeric token after it is in the text,
\* price_max is set, from such a token; when none is, price_max is set if and
\* only if a numeral is followed by "mil", and then from that numeral;
\* otherwise it is unset.
C17_PriceTriggers ==
    pstate = "parsed" =>
        IF TriggerTokens(msg) # {}
        THEN /\ IsSet(Val(filters).price_max)
             /\ \E tok \in TriggerTokens(msg) :
                   Val(filters).price_max = _pt_money_to_decimal(tok)
        ELSE IF MilNumerals(msg) # {}
        THEN /\ IsSet(Val(filters).price_max)
             /\ \E n \in MilNumerals(msg) :
                   Val(filters).price_max = _pt_money_to_decimal(n)
        ELSE Val(filters).price_max = None

\* the entries of a synonym table whose key is written in the folded text
KeysWritten(table) == {i \in 1..Len(table) : Contains(Norm, table[i][1])}

\* label is what the claim gives for one dimension: the label of the entry
\* before which no entry of the table has its key in the text, None when no
\* key is in the text
FirstInTableOrder(table, label) ==
    IF KeysWritten(table) = {} THEN label = None
    ELSE \E i \in KeysWritten(table) :
            /\ \A j \in 1..(i - 1) : j \notin KeysWritten(table)
            /\ label = Some(table[i][2])

\* C18: body type, transmission and fuel are each the label of the first
\* entry, in the declaration order of the dimension's table, whose key is a
\* substring of the folded text, wherever the keys stand in the text, and
\* None when no key of the table is in the text; each is decided by the keys
\* of its own table alone.
C18_FirstEntryInTableOrder ==
    pstate = "parsed" =>
        /\ FirstInTableOrder(BODY_TYPES, Val(filters).body_type)
        /\ FirstInTableOrder(TRANSMISSIONS, Val(filters).transmission)
        /\ FirstInTableOrder(FUELS, Val(filters).fuel)

\* "hatch SUV": the key of the second entry stands before the key of the
\* first, and the label is that of the first
C18_Witness ==
    /\ pstate = "parsed"
    /\ KeysWritten(BODY_TYPES) = {1, 2}
    /\ LitAt(Norm, 1, BODY_TYPES[2][1])
    /\ Val(filters).body_type = Some(BODY_TYPES[1][2])
    /\ Val(filters).transmission = None

---------------------------------------------------------------------------
\* Claims about the chat view (specification Spec)

\* a record satisfies a FilterSet: the predicate of every set dimension holds
Satisfies(r, f) ==
    /\ IsSet(f.body_type) => LowerSeq(r.body_type) = LowerSeq(Val(f.body_type))
    /\ IsSet(f.transmission) => LowerSeq(r.transmission) = LowerSeq(Val(f.transmission))
    /\ IsSet(f.fuel) => LowerSeq(r.fuel_type) = LowerSeq(Val(f.fuel))
    /\ IsSet(f.price_max) => r.price <= Val(f.price_max)
    /\ IsSet(f.year_min) => r.year >= Val(f.year_min)
    /\ IsSet(f.year_range) => /\ Val(f.year_range)[1] <= r.year
                              /\ r.year <= Val(f.year_range)[2]
    /\ IsSet(f.doors) => r.doors = Val(f.doors)

\* the request was answered with a success response
Answered == resp.kind = "json" /\ resp.status = 200

\* the records of the store that satisfy the filters of the request
Matches == {r \in store : Satisfies(r, Val(rfilters))}

\* the record of the store an item stands for
RowOfItem(item) == CHOOSE r \in store : r.vin = item.vin

\* items is exactly the records of S, each once, newest first
ItemsAre(S) ==
    /\ Len(resp.items) = Cardinality(S)
    /\ \A i \in 1..Len(resp.items) :
          /\ \E r \in S : r.vin = resp.items[i].vin
          /\ resp.items[i] = vehicle_to_dict(RowOfItem(resp.items[i]))
    /\ \A r \in S : \E i \in 1..Len(resp.items) : resp.items[i].vin = r.vin
    /\ \A i, j \in 1..Len(resp.items) :
          i < j => RowOfItem(resp.items[i]).created_at > RowOfItem(resp.items[j]).created_at

\* the request is a POST with a non-empty message
ValidRequest ==
    /\ req.method = "POST"
    /\ req.body = "object"
    /\ req.message.kind = "text"
    /\ Strip(req.message.text) # <<>>

\* C1: a POST with a non-empty message gets a success response; if the store
\* is not empty and no record satisfies the extracted filters, items is the
\* whole store, every record once, newest first; items is empty only when
\* the store is empty.
C1_RelaxationReturnsStore ==
    (resp # NoResp /\ ValidRequest) =>
        /\ Answered
        /\ (store # {} /\ Matches = {}) => ItemsAre(store)
        /\ resp.items = <<>> => store = {}

C1_Witness ==
    /\ Answered
    /\ Cardinality(store) >= 2
    /\ Matches = {}
    /\ \E k \in DOMAIN Val(rfilters) : IsSet(Val(rfilters)[k])
    /\ Len(resp.items) = Cardinality(store)

\* C2 as stated: total_matches of every success response is the number of
\* records that satisfy the extracted filters (0 when the result was relaxed).
C2_PreRelaxationCount ==
    Answered => resp.total_matches = Cardinality(Matches)

\* C2: total_matches of every success response is the size of the effective
\* result set: the number of records that satisfy the extracted filters when
\* there is one, and the size of the store when there is none.
C2_EffectiveCount ==
    Answered =>
        resp.total_matches = IF Matches = {} THEN Cardinality(store)
                             ELSE Cardinality(Matches)

C2_Witness ==
    /\ Answered
    /\ Matches = {}
    /\ store # {}
    /\ resp.total_matches = Cardinality(store)
    /\ ItemsAre(store)

\* the effective result set of the request, in its order
EffectiveRows == OrderByCreatedDesc(IF Matches = {} THEN store ELSE Matches)

\* C4: for a valid request, when the collaborator is unavailable, fails to
\* initialise or its call fails in any way, the response is a success and
\* reply is the text of fallback_reply for the effective result set with
\* limit 5, the same on every such path.
C4_FailureGivesFallback ==
    (resp # NoResp /\ ValidRequest /\ llm \in NoClient \cup CallRaises) =>
        /\ Answered
        /\ resp.reply = fallback_reply(Strip(req.message.text), EffectiveRows, 5)

C4_Witness ==
    /\ Answered
    /\ llm = "RateLimitError"
    /\ Cardinality(store) >= 2
    /\ Len(resp.reply) = 3 + Cardinality(store)
    /\ "fallback_reply" \in {effects.calls[i] : i \in 1..Len(effects.calls)}

\* nothing was queried, called or sent for the request
NoEffects == effects = [queries |-> <<>>, calls |-> <<>>, sent |-> <<>>]

\* the body cannot be parsed, the payload is no object, or message is
\* missing, empty or only whitespace
MalformedAsStated ==
    \/ req.body # "object"
    \/ req.message.kind \in {"missing", "null"}
    \/ req.message.kind = "text" /\ Strip(req.message.text) = <<>>

\* C9 as stated: a POST that is malformed in one of the listed ways gets a
\* client error with no query, no collaborator call and no fallback; every
\* other POST gets a success response.
C9_OnlyListedAreRejected ==
    (resp # NoResp /\ req.method = "POST") =>
        IF MalformedAsStated
        THEN resp.status = 400 /\ NoEffects
        ELSE Answered

\* C9: a POST whose body cannot be parsed, whose payload is no object, or
\* whose message is missing, not a string, empty or only whitespace gets a
\* client error with no query, no collaborator call and no fallback; every
\* other POST gets a success response.
C9_MalformedIsRejected ==
    (resp # NoResp /\ req.method = "POST") =>
        IF MalformedAsStated \/ req.message.kind = "number"
        THEN resp.status = 400 /\ NoEffects /\ rfilters = None
        ELSE Answered

C9_Witness ==
    /\ req.method = "POST"
    /\ req.body = "object"
    /\ req.message.kind = "text"
    /\ req.message.text # <<>>
    /\ Strip(req.message.text) = <<>>
    /\ store # {}
    /\ resp.status = 400
    /\ NoEffects

---------------------------------------------------------------------------
\* Claims about the query translator (specification SpecQuery)

\* C3: the query returns exactly the records that satisfy the predicate of
\* every set dimension, in whatever order the predicates are applied, and
\* when at least one record matches, items holds the matching records and
\* no other.
C3_QueryIsConjunction ==
    /\ IsSet(qresult) => Val(qresult) = Matches
    /\ (Answered /\ Matches # {}) => ItemsAre(Matches)

C3_Witness ==
    /\ IsSet(qresult)
    /\ Answered
    /\ Val(qresult) = {r \in store : r.body_type \in {<<"S", "U", "V">>, <<"s", "u", "v">>}}
    /\ Cardinality(Val(qresult)) = 2
    /\ Cardinality(store) = 4
    /\ Len(resp.items) = 2

---------------------------------------------------------------------------
\* Claims about the summary (specification SpecSum)

RECURSIVE SumOfCounts(_)
SumOfCounts(groups) ==
    IF groups = <<>> THEN 0 ELSE Head(groups).count + SumOfCounts(Tail(groups))

\* the label a summary shows for a body type or fuel
LabelOf(value) == IF value = <<>> THEN <<"I", "n", "d", "e", "f", "i", "n", "i", "d", "o">> ELSE value

\* how many of the first n rows of rs have the body-type label
BodyCount(n, label) ==
    Cardinality({i \in 1..Len(rs) : i <= n /\ LabelOf(rs[i].body_type) = label})

\* how many of the first n rows of rs have the fuel label
FuelCount(n, label) ==
    Cardinality({i \in 1..Len(rs) : i <= n /\ LabelOf(rs[i].fuel_type) = label})

\* the upper bound that a band label names: the number after its last "$"
HighOfBand(band) ==
    IntOf(SelectSeq(SubSeq(band, Max({i \in 1..Len(band) : band[i] = "$"}) + 1, Len(band)),
                    LAMBDA c : c \in DigitCls))

\* how many of the first n rows of rs have a price from low to high
PricedCount(n, low, high) ==
    Cardinality({i \in 1..Len(rs) : /\ i <= n
                                    /\ low * 100 <= rs[i].price
                                    /\ rs[i].price <= high * 100 + 99})

\* how many of the first n rows of rs have a price in the 20,000 units up to
\* the upper bound of the band
BandCount(n, band) == PricedCount(n, HighOfBand(band) - 19999, HighOfBand(band))

\* C10: for a result set of n rows the summary has total = n, body-type and
\* fuel counts that are exact over all n rows, and price bands counted over
\* the first min(n, 300) rows only: their counts sum to at most 300 and at
\* most 10 bands are reported.
C10_ExactTotalsSampledBands ==
    IsSet(summary) =>
        LET s == Val(summary)
            n == Len(rs)
        IN  /\ s.total = n
            /\ \A p \in 1..Len(s.by_body) :
                  s.by_body[p].count = BodyCount(n, s.by_body[p].body_type)
            /\ SumOfCounts(s.by_body) = n
            /\ \A p \in 1..Len(s.by_fuel) :
                  s.by_fuel[p].count = FuelCount(n, s.by_fuel[p].fuel_type)
            /\ SumOfCounts(s.by_fuel) = n
            /\ \A p \in 1..Len(s.top_price_bands) :
                  s.top_price_bands[p].count = BandCount(300, s.top_price_bands[p].band)
            /\ SumOfCounts(s.top_price_bands) <= 300
            /\ Len(s.top_price_bands) <= 10

C10_Witness ==
    /\ IsSet(summary)
    /\ Len(rs) > 300
    /\ Val(summary).total = Len(rs)
    /\ Len(Val(summary).top_price_bands) = 3
    /\ SumOfCounts(Val(summary).top_price_bands) = 300

---------------------------------------------------------------------------
\* Claims about the suggestions (specification SpecSuggest)

\* the prompts in their fixed order: three about refinement, two about the
\* body type, two about the fuel, one about the doors
PromptOrder == <<"Filtrar por ano minimo (ex.: a partir de 2020)",
                 "Definir um teto de preco (ex.: ate R$ 120.000)",
                 "Escolher transmissao (Manual/Automatica/CVT)",
                 "Mostrar apenas SUVs", "Ver Hatch ate R$ 80.000",
                 "Apenas Flex", "Diesel para uso rodoviario",
                 "Quero 4 portas">>

\* whether prompt i is due for the filters f and the count n
PromptDue(i, f, n) ==
    CASE i \in 1..3 -> n > 40
      [] i \in 4..5 -> f.body_type = None
      [] i \in 6..7 -> f.fuel = None
      [] i = 8      -> f.doors = None

\* the positions, in PromptOrder, of the prompts that are due
DuePositions(f, n) == {i \in 1..Len(PromptOrder) : PromptDue(i, f, n)}

\* C11: build_suggestions returns the first 6 (or all, if fewer) of the fixed
\* sequence of prompts that are due: the refinement prompts iff the count
\* exceeds 40, the body-type prompts iff body_type is unset, the fuel prompts
\* iff fuel is unset, the doors prompt iff doors is unset; never more than 6
\* entries, never out of that order.
C11_FirstSixOfFixedSequence ==
    IsSet(ret) /\ call.fn = "build_suggestions" =>
        LET due == DuePositions(call.filters, call.qs_total)
            out == Val(ret)
            n   == IF Cardinality(due) < 6 THEN Cardinality(due) ELSE 6
        IN  /\ Len(out) = n
            /\ Len(out) <= 6
            /\ \A p \in 1..n :
                  \E i \in due : /\ Cardinality({j \in due : j < i}) = p - 1
                                 /\ out[p] = PromptOrder[i]

\* more than 40 matches and nothing set: eight prompts are due, six returned
C11_Witness ==
    /\ IsSet(ret)
    /\ call.fn = "build_suggestions"
    /\ call.qs_total > 40
    /\ Cardinality(DuePositions(call.filters, call.qs_total)) = 8
    /\ Len(Val(ret)) = 6
    /\ Val(ret)[6] = "Apenas Flex"

---------------------------------------------------------------------------
\* Claims about the prompt (specification SpecPrompt)

\* the role and the content a turn is sent with
SentRole(h) == IF h.role = Some("user") THEN "user" ELSE "assistant"

SentContent(h) == IF IsSet(h.content) THEN Val(h.content) ELSE <<>>

\* C12: for a history of any length whose turns are objects, the list sent
\* to the collaborator is one system instruction, then the last
\* min(6, len(history)) turns in their original order, then one user message
\* with the user text and the built context: at most 8 entries, and no turn
\* older than the last six.
C12_SystemLastSixUser ==
    IsSet(ret) /\ call.fn = "build_llm_messages" =>
        LET h   == call.history
            n   == Len(h)
            k   == IF n < 6 THEN n ELSE 6
            out == Val(ret).msgs
        IN  /\ (\A i \in 1..n : h[i].type = "object") => Val(ret).raised = ""
            /\ Val(ret).raised = "" =>
                  /\ Len(out) = k + 2
                  /\ Len(out) <= 8
                  /\ out[1].role = "system"
                  /\ \A i \in 1..k : /\ out[1 + i].role = SentRole(h[n - k + i])
                                      /\ out[1 + i].content = SentContent(h[n - k + i])
                  /\ out[k + 2].role = "user"
                  /\ out[k + 2].content.user_msg = call.user_msg
                  /\ out[k + 2].content.context = call.context_text

\* a history of eight turns: six are sent, the third first
C12_Witness ==
    /\ IsSet(ret)
    /\ call.fn = "build_llm_messages"
    /\ Len(call.history) = 8
    /\ Val(ret).raised = ""
    /\ Len(Val(ret).msgs) = 8
    /\ Val(ret).msgs[2] = [role |-> "user", content |-> <<"3">>]
    /\ Val(ret).msgs[7] = [role |-> "assistant", content |-> <<"8">>]

---------------------------------------------------------------------------
\* Claims about the fallback reply and the context (specification SpecText)

\* the rows of the call, as a set
CallRows == {call.rows[i] : i \in 1..Len(call.rows)}

\* the row of the call that has exactly p - 1 newer rows
NthNewest(p) ==
    CHOOSE r \in CallRows :
        Cardinality({o \in CallRows : o.created_at > r.created_at}) = p - 1

\* C13: fallback_reply over an empty result set is the fixed apology; over n
\* rows it is a header stating n, then min(n, limit) example lines for the
\* most recently created rows, newest first, then the fixed closing line: a
\* text that the result set and the limit determine.
C13_FallbackText ==
    IsSet(ret) /\ call.fn = "fallback_reply" =>
        LET n   == Cardinality(CallRows)
            k   == IF n < call.limit THEN n ELSE call.limit
            out == Val(ret)
        IN  IF n = 0 THEN out = <<[tag |-> "no_options_found"]>>
            ELSE /\ Len(out) = k + 3
                 /\ out[1] = [tag |-> "found", total |-> n]
                 /\ out[2] = [tag |-> "some_suggestions"]
                 /\ \A p \in 1..k :
                       /\ out[2 + p].tag = "example"
                       /\ out[2 + p].brand = NthNewest(p).brand
                       /\ out[2 + p].model = NthNewest(p).model
                       /\ out[2 + p].year = NthNewest(p).year
                       /\ out[2 + p].body_type = NthNewest(p).body_type
                       /\ out[2 + p].transmission = NthNewest(p).transmission
                       /\ out[2 + p].fuel_type = NthNewest(p).fuel_type
                       /\ out[2 + p].price = DecimalStr(NthNewest(p).price)
                       /\ out[2 + p].mileage_km = NthNewest(p).mileage_km
                 /\ out[k + 3] = [tag |-> "offer_filters"]

\* seven rows handed oldest first, the default limit: five lines, the newest first
C13_Witness ==
    /\ IsSet(ret)
    /\ call.fn = "fallback_reply"
    /\ call.limit = FALLBACK_LIMIT
    /\ Len(call.rows) = 7
    /\ call.rows[1].created_at = 1
    /\ Len(Val(ret)) = 8
    /\ Val(ret)[1].total = 7
    /\ Val(ret)[3].mileage_km = 7000
    /\ Val(ret)[7].mileage_km = 3000

\* the example lines of a context
ExampleLines(out) == SelectSeq(out, LAMBDA line : line.tag = "example")

\* whether the context holds the line that says no vehicle was found
HasSentinel(out) == \E i \in 1..Len(out) : out[i].tag = "no_vehicle_found"

---------------------------------------------------------------------------
\* Claims about the store and the seeding commands (specification SpecSeed)

\* C15: no two records of the store share a VIN; a create with the VIN of an
\* existing record fails with an integrity error and leaves the store as
\* it was; and a seeding command never calls create with a VIN that is in
\* the store, which holds what it created before in the same batch.
C15_VinUnique ==
    /\ \A r1 \in store, r2 \in store : r1.vin = r2.vin => r1 = r2
    /\ lastcreate # NoCreate =>
          /\ lastcreate.existed <=> lastcreate.res = "IntegrityError"
          /\ lastcreate.existed => ~lastcreate.changed
          /\ ~lastcreate.existed => lastcreate.changed
          /\ lastcreate.by \in {"seed_vehicles", "seed_vehicles_ai"} => ~lastcreate.existed
    /\ seed # NoSeed => Cardinality(VinsOf(seed.rows)) = Cardinality(seed.rows)

\* a client's create with the VIN of a record that a seeding command
\* created has failed
C15_Witness ==
    /\ lastcreate # NoCreate
    /\ lastcreate.by = "client"
    /\ lastcreate.res = "IntegrityError"
    /\ \E r \in store : r.vin = lastcreate.vin /\ r.brand # Kinds[1].brand
    /\ Cardinality(store) >= 2

---------------------------------------------------------------------------
\* Claims about the calls of the view (specification SpecChatFair)

\* the request in progress follows the request contract: its history is a
\* sequence of objects
WellFormed ==
    /\ req.method = "POST"
    /\ \A i \in 1..Len(req.history) : req.history[i].type = "object"

\* how often chat.completions.create was called for the request in progress
CreateCalls == Len(SelectSeq(view.calls, LAMBDA c : c = "chat.completions.create"))

\* the reply has the form of a fallback reply
IsFallbackText(reply) ==
    \/ reply = <<[tag |-> "no_options_found"]>>
    \/ /\ Len(reply) >= 3
       /\ reply[1].tag = "found"
       /\ reply[Len(reply)].tag = "offer_filters"

CallsOk ==
    view # NoView /\ WellFormed =>
        /\ CreateCalls <= 1
        /\ view.pc \in {"respond", "done"} =>
              /\ CreateCalls = (IF llm \in NoClient THEN 0 ELSE 1)
              /\ view.outcome \in {"SUCCESS", "FALLBACK"}
              /\ view.outcome = "SUCCESS" =>
                    /\ llm \in {"text", "no_content"}
                    /\ view.reply = (IF llm = "text"
                                     THEN <<[tag |-> "llm", text |-> "completion"]>>
                                     ELSE <<>>)
                    /\ \A i \in 1..Len(view.calls) : view.calls[i] # "fallback_reply"
              /\ view.outcome = "FALLBACK" =>
                    /\ llm \notin {"text", "no_content"}
                    /\ IsFallbackText(view.reply)
        /\ view.pc = "done" =>
              /\ resp.kind = "json"
              /\ resp.reply = view.reply
              /\ effects.calls = view.calls

---------------------------------------------------------------------------
\* Claims about the view beside other writers (specification SpecChat)

\* the count that the first line of the context states
ContextHeaderCount == view.context_text[1].total

\* whether the reply of the response is a fallback reply
FallbackReplied == \E i \in 1..Len(view.calls) : view.calls[i] = "fallback_reply"

\* C20: in every success response total_matches is the number of entries of
\* items, and the count in the first line of the context and the count in the
\* fallback reply are that number too, whatever other clients create or
\* delete while the request is answered.
C20_OneConsistentView ==
    view.pc = "done" =>
        /\ resp.total_matches = Len(resp.items)
        /\ ContextHeaderCount = Len(resp.items)
        /\ FallbackReplied =>
              IF resp.reply[1].tag = "found"
              THEN resp.reply[1].total = Len(resp.items)
              ELSE Len(resp.items) = 0

---------------------------------------------------------------------------
\* Claims about the price bands (specification SpecBand)

\* the bounds of the claim for a price in hundredths
ClaimLow(price) == ((price \div 100) \div 20000) * 20000

ClaimHigh(price) == ClaimLow(price) + 19999

\* the number that a part of a label shows: its digits, separators left out
NumberShown(part) == SelectSeq(part, LAMBDA c : c \in DigitCls)

\* where the dash of a label stands
DashOf(label) == Min({i \in 1..Len(label) : label[i] = "-"})

\* C19: the label of the band of a price shows low = floor(p/20000)*20000 and
\* high = low + 19999 as those integers, and two prices have the same label
\* if and only if they are in the same band of 20,000.
C19_LabelShowsBounds ==
    IsSet(ret) /\ call.fn = "_price_band" =>
        /\ \E i \in 1..Len(Val(ret)[1]) : Val(ret)[1][i] = "-"
        /\ NumberShown(SubSeq(Val(ret)[1], 1, DashOf(Val(ret)[1])))
              = IntToDigits(ClaimLow(call.price))
        /\ NumberShown(SubSeq(Val(ret)[1], DashOf(Val(ret)[1]), Len(Val(ret)[1])))
              = IntToDigits(ClaimHigh(call.price))
        /\ (Val(ret)[1] = Val(ret)[2]) <=> (ClaimLow(call.price) = ClaimLow(call.other))

---------------------------------------------------------------------------
\* Claims about the labels and the seeded values (specification SpecSeeded)

\* the canonical label of the category a seeded value names: the label of
\* the table entry whose key is that value
SeededLabel(table, value) ==
    table[CHOOSE i \in 1..Len(table) : table[i][1] = value][2]

\* the values a seeding command stores for the category of a label
SeededFor(table, values, label) ==
    {values[i] : i \in {j \in 1..Len(values) : SeededLabel(table, values[j]) = label}}

\* a seeded row is of the categories the filters name
InCategories(row, f) ==
    /\ IsSet(f.body_type) => SeededLabel(BODY_TYPES, row.body_type) = Val(f.body_type)
    /\ IsSet(f.transmission) =>
          SeededLabel(TRANSMISSIONS, row.transmission) = Val(f.transmission)
    /\ IsSet(f.fuel) => SeededLabel(FUELS, row.fuel_type) = Val(f.fuel)

\* C21: for body type, transmission and fuel, the label extracted from the
\* text equals, ignoring case, every value the seeding commands store for
\* its category; the query on a seeded table selects exactly the seeded rows
\* of the categories asked for, and it is relaxed only when the table has no
\* row of them
C21_LabelsMatchSeeded ==
    (call.fn = "seeded_query" /\ IsSet(ret)) =>
        /\ IsSet(Val(ret).f.body_type) =>
              \A v \in SeededFor(BODY_TYPES, BODY, Val(Val(ret).f.body_type)) :
                 IExact(v, Val(Val(ret).f.body_type))
        /\ IsSet(Val(ret).f.transmission) =>
              \A v \in SeededFor(TRANSMISSIONS, TRANS, Val(Val(ret).f.transmission)) :
                 IExact(v, Val(Val(ret).f.transmission))
        /\ IsSet(Val(ret).f.fuel) =>
              \A v \in SeededFor(FUELS, FUEL, Val(Val(ret).f.fuel)) :
                 IExact(v, Val(Val(ret).f.fuel))
        /\ Val(ret).matched = {row \in Val(ret).table : InCategories(row, Val(ret).f)}
        /\ Val(ret).relaxed =>
              \A row \in Val(ret).table : ~InCategories(row, Val(ret).f)

---------------------------------------------------------------------------
\* Claims about the AI seeding command (specification SpecSeedAi)

\* the command is between its start and its end
SeedAiRunning == seed # NoSeed /\ seed.pc \in {"loop", "call", "items"}

\* the command has returned or an exception has ended it
SeedAiEnded == seed # NoSeed /\ seed.pc \in {"done", "failed"}

\* the table holds every VIN that fallback_vin() draws here
NoVinLeft == FallbackVins \subseteq VinsOf(store)

\* C22: for every n and batch and every sequence of answers, when each API
\* call succeeds within its 4 attempts the command terminates, and when it
\* has returned it has created exactly n vehicles.
C22_TerminatesWithExactlyN ==
    /\ [](seed # NoSeed /\ seed.pc = "done" =>
            seed.created = seed.total /\ Cardinality(store) = seed.total)
    /\ SeedAiRunning ~> (SeedAiEnded \/ NoVinLeft)

====
